---- MODULE Spec2Model ----
(***************************************************************************)
(* A model of the telephony MCP server and its callback server.           *)
(*                                                                         *)
(*   src/servers/callback_server.py   the event store and its HTTP        *)
(*                                     handlers (a process of its own)     *)
(*   src/servers/telephony_server.py  the registry active_calls, the       *)
(*                                     Correlator loop poll_call_status,   *)
(*                                     check_call_status and the waits     *)
(*                                                                         *)
(* Python values are modelled as records that carry their Python type in   *)
(* the field pytype; a dict is a record whose other fields are its keys.   *)
(* Python's None in a string-valued place is the string None below.        *)
(***************************************************************************)
EXTENDS Integers, Sequences, FiniteSets, TLC

VARIABLES
    callback_events,   \* callback_server.callback_events: the event store
    wall,              \* the callback server's wall clock (datetime.now())
    resp,              \* the last HTTP exchange of the callback server
    inflight,          \* the POST /event requests whose body is awaited
    issued,            \* history: the ids assigned so far, where it is recorded
    active_calls,      \* telephony_server.active_calls: the registry
    poll,              \* the poll_call_status tasks, by call uuid
    check,             \* the check_call_status call in progress
    loop_time,         \* the telephony server's event-loop clock
    wait,              \* the wait_for_speech_result calls, by caller
    sms,               \* the wait_for_sms_callback_event calls, by caller
    reaper,            \* the last run of clean_expired_calls
    env,               \* the settings read from the environment at import
    tool,              \* the outbound tool invocations, by caller
    server             \* the telephony process and its periodic_cleanup task

store_vars == <<callback_events, wall, resp, inflight, issued>>

tel_vars == <<active_calls, poll, check, loop_time, wait, sms, reaper, env, tool, server>>

(***************************************************************************)
(* Bounds of the model.                                                    *)
(***************************************************************************)
MaxEvents == 3         \* records the store holds at most
MaxClock == 4          \* largest wall-clock reading

(***************************************************************************)
(* Python helpers.                                                         *)
(***************************************************************************)
None == "<None>"

Min(S) == CHOOSE x \in S : \A y \in S : x <= y
Max(S) == CHOOSE x \in S : \A y \in S : x >= y

\* d.get(k) for a string-valued key
Get(d, k) == IF k \in DOMAIN d THEN d[k] ELSE None

\* d.get(k, default) for a string-valued key
GetOr(d, k, default) == IF k \in DOMAIN d THEN d[k] ELSE default

\* isinstance(v, dict)
IsDict(v) == v.pytype = "dict"

\* s[start:stop] of a Python list (0-based, negative indices count from the end)
SliceIndex(i, n) == IF i < 0 THEN Max({i + n, 0}) ELSE Min({i, n})

PySlice(s, start, stop) ==
    LET lo == SliceIndex(start, Len(s))
        hi == SliceIndex(stop, Len(s))
    IN  IF lo >= hi THEN <<>> ELSE SubSeq(s, lo + 1, hi)

(***************************************************************************)
(* JSON payloads the provider (or anyone else) may POST.                   *)
(***************************************************************************)
SpeechItem(text, confidence) ==
    [pytype |-> "dict", text |-> text, confidence |-> confidence]

ResultsList(items) == [pytype |-> "list", items |-> items]

SpeechDict(results) == [pytype |-> "dict", results |-> results]

StatusBody(uuid, conv, status) ==
    [pytype |-> "dict", uuid |-> uuid, conversation_uuid |-> conv, status |-> status]

SpeechBody(conv, speech) ==
    [pytype |-> "dict", conversation_uuid |-> conv, speech |-> speech]

\* a speech event that carries no conversation_uuid
AnonymousSpeechBody(speech) == [pytype |-> "dict", speech |-> speech]

SmsBody(msisdn, text) ==
    [pytype |-> "dict", msisdn |-> msisdn, text |-> text]

\* a request body as bytes: JSON text of a value, text that is no JSON, or
\* bytes that are no UTF-8
JsonText(value) == [enc |-> "json", value |-> value]
NotJson == [enc |-> "text", text |-> "not json"]
NotUtf8 == [enc |-> "invalid_utf8", text |-> "\\xff"]

\* json.loads(body_bytes): the value, or the exception it raises
JsonLoads(raw) ==
    CASE raw.enc = "json" -> [raised |-> None, value |-> raw.value]
      [] raw.enc = "text" -> [raised |-> "JSONDecodeError"]
      [] raw.enc = "invalid_utf8" -> [raised |-> "UnicodeDecodeError"]

\* str(body_bytes, 'utf-8', errors='replace')
DecodeReplace(raw) == IF raw.enc = "invalid_utf8" THEN "\\ufffd" ELSE raw.text

(***************************************************************************)
(* receive_event: POST /event                                              *)
(***************************************************************************)
\* `"speech" in body`: the exception it raises, or None
SpeechInRaises(body) ==
    IF body.pytype \in {"dict", "list", "str"} THEN None ELSE "TypeError"

\* `"speech" in body`
SpeechIn(body) ==
    CASE body.pytype = "dict" -> "speech" \in DOMAIN body
      [] body.pytype \in {"list", "str"} -> body.has_speech
      [] OTHER -> FALSE

\* body.get("speech", {}).get("results", default), given that the key is there:
\* the exception it raises, or None
ResultsRaises(body) ==
    IF ~IsDict(body) THEN "AttributeError"
    ELSE IF ~IsDict(body.speech) THEN "AttributeError"
    ELSE None

\* the value of speech.get("results", default) is truthy
ResultsTruthy(speech) ==
    /\ "results" \in DOMAIN speech
    /\ CASE speech.results.pytype = "list" -> speech.results.items # <<>>
         [] speech.results.pytype = "NoneType" -> FALSE
         [] OTHER -> TRUE

\* speech_results[0].get(...) : the exception it raises, or None
FirstResultRaises(speech) ==
    IF speech.results.pytype # "list" THEN "TypeError"
    ELSE IF ~IsDict(speech.results.items[1]) THEN "AttributeError"
    ELSE None

\* the exception the logging block of receive_event raises on a parsed body
LoggingRaises(body) ==
    IF SpeechInRaises(body) # None THEN SpeechInRaises(body)
    ELSE IF ~SpeechIn(body) THEN None
    ELSE IF ResultsRaises(body) # None THEN ResultsRaises(body)
    ELSE IF ~ResultsTruthy(body.speech) THEN None
    ELSE FirstResultRaises(body.speech)

\* the body receive_event stores, and the exception that leaves the inner try
ParsedBody(raw) ==
    LET parsed == JsonLoads(raw)
    IN  CASE parsed.raised = "JSONDecodeError" ->
                [raised |-> None,
                 body |-> [pytype |-> "dict", raw |-> DecodeReplace(raw),
                           parse_error |-> "JSONDecodeError"]]
          [] parsed.raised = "UnicodeDecodeError" ->
                [raised |-> "UnicodeDecodeError"]
          [] OTHER ->
                IF LoggingRaises(parsed.value) # None
                THEN [raised |-> LoggingRaises(parsed.value)]
                ELSE [raised |-> None, body |-> parsed.value]

\* f"evt_{len(callback_events) + 1}_{datetime.now().timestamp()}"
EventId(kind, now) == <<kind, Len(callback_events) + 1, now>>

EventRecord(req, body, now) ==
    [id |-> EventId("evt", now), timestamp |-> now, endpoint |-> req.url,
     method |-> "POST", headers |-> req.headers,
     query_params |-> req.query_params, body |-> body]

ErrorRecord(req, exc, now) ==
    [id |-> EventId("err", now),
     error |-> [error |-> exc, url |-> req.url, method |-> "POST",
                headers |-> req.headers, timestamp |-> now]]

Mut_receive_event(req, step) ==
    LET now == wall + step
        parsed == ParsedBody(req.body)
        kept == IF callback_events = <<>> THEN <<>> ELSE Tail(callback_events)
    IN  /\ wall' = now
        /\ IF parsed.raised = None
           THEN /\ callback_events' = Append(kept, EventRecord(req, parsed.body, now))
                /\ resp' = [op |-> "receive_event", request |-> req,
                            status_code |-> 200, status |-> "success"]
           ELSE /\ callback_events' = Append(kept, ErrorRecord(req, parsed.raised, now))
                /\ resp' = [op |-> "receive_event", request |-> req,
                            status_code |-> 500, status |-> parsed.raised]

\* one POST /event from the return of `await request.body()` on; the clock
\* has advanced by step since the last reading
receive_event(req, step) ==
    LET now == wall + step
        parsed == ParsedBody(req.body)
    IN  /\ wall' = now
        /\ IF parsed.raised = None
           THEN /\ callback_events' =
                       Append(callback_events, EventRecord(req, parsed.body, now))
                /\ resp' = [op |-> "receive_event", request |-> req,
                            status_code |-> 200, status |-> "success"]
           ELSE /\ callback_events' =
                       Append(callback_events, ErrorRecord(req, parsed.raised, now))
                /\ resp' = [op |-> "receive_event", request |-> req,
                            status_code |-> 500, status |-> parsed.raised]

\* a POST /event whose body is at hand when the handler asks for it, while
\* the store holds fewer than MaxEvents records and the clock reads at most
\* MaxClock
ReceiveEvent(req, step) ==
    /\ Len(callback_events) < MaxEvents
    /\ wall + step <= MaxClock
    /\ receive_event(req, step)
    /\ UNCHANGED <<inflight, issued>>

\* the same, with the id it assigns added to the history, while the
\* history holds at most MaxEvents ids
IssueEvent(req, step) ==
    /\ Len(callback_events) < MaxEvents
    /\ Cardinality(issued) <= MaxEvents
    /\ wall + step <= MaxClock
    /\ receive_event(req, step)
    /\ issued' = issued \cup {callback_events'[Len(callback_events')].id}
    /\ UNCHANGED inflight

\* receive_event up to `await request.body()`: the handler is suspended
ReceiveSuspend(req) ==
    /\ req \notin inflight
    /\ inflight' = inflight \cup {req}
    /\ UNCHANGED <<callback_events, wall, resp, issued>>

\* the body has arrived: the handler runs to its answer
ReceiveResume(req, step) ==
    /\ req \in inflight
    /\ Len(callback_events) < MaxEvents
    /\ wall + step <= MaxClock
    /\ receive_event(req, step)
    /\ inflight' = inflight \ {req}
    /\ UNCHANGED issued

(***************************************************************************)
(* list_events: GET /events?limit&skip                                     *)
(***************************************************************************)
Mut_ListResult(events, limit, skip) ==
    [count |-> Len(PySlice(events, skip, skip + limit)),
     events |-> PySlice(events, skip, limit)]

\* the answer of list_events on a store holding events
ListResult(events, limit, skip) ==
    [count |-> Len(events),
     events |-> PySlice(events, skip, skip + limit)]

list_events(limit, skip) == ListResult(callback_events, limit, skip)

ListEvents(limit, skip) ==
    /\ resp' = [op |-> "list_events", limit |-> limit, skip |-> skip,
                status_code |-> 200, result |-> list_events(limit, skip)]
    /\ UNCHANGED <<callback_events, wall, inflight, issued>>

(***************************************************************************)
(* get_event: GET /events/{event_id}                                       *)
(***************************************************************************)
Mut_GetResult(events, event_id) ==
    LET hits == {i \in 1..Len(events) : events[i].id[1] = event_id[1]}
    IN  IF hits = {}
        THEN [status_code |-> 404]
        ELSE [status_code |-> 200, event |-> events[Min(hits)]]

\* the answer of get_event on a store holding events
GetResult(events, event_id) ==
    LET hits == {i \in 1..Len(events) : events[i].id = event_id}
    IN  IF hits = {}
        THEN [status_code |-> 404]
        ELSE [status_code |-> 200, event |-> events[Min(hits)]]

get_event(event_id) == GetResult(callback_events, event_id)

GetEvent(event_id) ==
    /\ resp' = [op |-> "get_event", event_id |-> event_id,
                result |-> get_event(event_id)]
    /\ UNCHANGED <<callback_events, wall, inflight, issued>>

(***************************************************************************)
(* clear_events: DELETE /events                                            *)
(***************************************************************************)
Mut_ClearEvents ==
    /\ resp' = [op |-> "clear_events", status_code |-> 200,
                status |-> "success",
                cleared |-> Len(callback_events) + Cardinality(inflight)]
    /\ callback_events' = <<>>
    /\ UNCHANGED <<wall, inflight, issued>>

Mut_cleared_store == IF callback_events = <<>> THEN <<>> ELSE Tail(callback_events)

cleared_store == <<>>

ClearEvents ==
    /\ resp' = [op |-> "clear_events", status_code |-> 200,
                status |-> "success", cleared |-> Len(callback_events)]
    /\ callback_events' = cleared_store
    /\ UNCHANGED <<wall, inflight, issued>>

(***************************************************************************)
(* Inputs of the callback server.                                          *)
(***************************************************************************)
Headers1 == [content_type |-> "application/json"]
Headers2 == [content_type |-> "text/plain", x_request |-> "r2"]
Query1 == [source |-> "vonage"]
Query2 == [source |-> "test", retry |-> "1"]

Request(raw, headers, query_params) ==
    [url |-> "/event", body |-> raw, headers |-> headers,
     query_params |-> query_params]

YesItem == SpeechItem("yes", "0.9")

StoreRequests ==
    { Request(NotJson, Headers2, Query1),
      Request(NotUtf8, Headers2, Query1),
      Request(JsonText(StatusBody("C1", "CV1", "ringing")), Headers1, Query2),
      Request(JsonText(SpeechBody("CV1", SpeechDict(ResultsList(<<YesItem>>)))),
              Headers1, Query1),
      Request(JsonText(SpeechBody("CV1", [pytype |-> "NoneType"])), Headers1, Query1),
      Request(JsonText([pytype |-> "list", has_speech |-> FALSE]), Headers1, Query1),
      Request(JsonText([pytype |-> "int"]), Headers1, Query1) }

\* the clock advances between two requests
ClockSteps == {1}

SliceArgs == 0..(MaxEvents + 1)

\* the ids get_event is asked for: those in the store, and one that may be gone
EventIds == {callback_events[i].id : i \in 1..Len(callback_events)} \cup {<<"evt", 1, 1>>}

(***************************************************************************)
(* The callback server alone.                                              *)
(***************************************************************************)
StoreInit ==
    /\ callback_events = <<>>
    /\ wall = 0
    /\ resp = [op |-> "none"]
    /\ inflight = {}
    /\ issued = {}

\* the module-level settings of telephony_server, all of them set
FullEnv ==
    [VONAGE_API_KEY |-> TRUE, VONAGE_API_SECRET |-> TRUE,
     VONAGE_APPLICATION_ID |-> TRUE, VONAGE_PRIVATE_KEY_PATH |-> TRUE,
     VONAGE_LVN |-> TRUE]

cleanup_interval == 300   \* periodic_cleanup: asyncio.sleep(300)

\* the process once telephony_mcp.run is reached: through main.py the module
\* is imported and its `if __name__ == "__main__"` block is skipped; run as a
\* script, the block creates the periodic_cleanup task only if the event
\* loop it finds is already running
Served(entry, loop_is_running, now) ==
    IF entry = "telephony_server.py" /\ loop_is_running
    THEN [pc |-> "running", entry |-> entry, cleanup |-> "sleeping",
          wake_at |-> now + cleanup_interval]
    ELSE [pc |-> "running", entry |-> entry, cleanup |-> "none", wake_at |-> 0]

TasksInit ==
    /\ active_calls = <<>>
    /\ poll = <<>>
    /\ check = [pc |-> "idle"]
    /\ loop_time = 0
    /\ wait = <<>>
    /\ sms = <<>>
    /\ reaper = [ran |-> FALSE]
    /\ tool = <<>>

\* the server started through main.py
RegistryInit == TasksInit /\ server = Served("main.py", FALSE, 0)

TelInit == RegistryInit /\ env = FullEnv

Init == StoreInit /\ TelInit

StoreNext ==
    \/ \E req \in StoreRequests, step \in ClockSteps :
          ReceiveEvent(req, step) /\ UNCHANGED tel_vars
    \/ \E limit \in SliceArgs, skip \in SliceArgs :
          ListEvents(limit, skip) /\ UNCHANGED tel_vars
    \/ \E event_id \in EventIds : GetEvent(event_id) /\ UNCHANGED tel_vars
    \/ ClearEvents /\ UNCHANGED tel_vars

vars == <<callback_events, wall, resp, inflight, issued, active_calls, poll, check, loop_time, wait, sms,
          reaper, env, tool, server>>

SpecStore == Init /\ [][StoreNext]_vars

(***************************************************************************)
(* The telephony server: the registry and the Correlator loop.             *)
(***************************************************************************)
max_attempts == 60     \* poll_call_status: max_attempts
events_limit == 100    \* GET /events?limit=100

MaxCycles == 3         \* poll cycles of one Correlator loop the model follows

CallIds == {"C1", "C2"}

TerminalStatuses == {"completed", "failed", "rejected", "busy", "timeout"}

\* d[k] = v on a dict
SetKey(d, k, v) == [x \in DOMAIN d \cup {k} |-> IF x = k THEN v ELSE d[x]]

\* bool(v) of a string or None
Truthy(v) == v \notin {None, ""}

\* str(v) of a string or None
PyStr(v) == IF v = None THEN "None" ELSE v

\* sorted(events, key=lambda e: e.get("timestamp", ""), reverse=True); the
\* sort is stable, and "" sorts below every timestamp
SortKey(e) == IF "timestamp" \in DOMAIN e THEN e.timestamp ELSE -1

\* the place of events[i] in the sorted list: behind the events with a
\* larger key and behind the earlier events with the same key
SortRank(events, i) ==
    1 + Cardinality({j \in 1..Len(events) :
                        \/ SortKey(events[j]) > SortKey(events[i])
                        \/ SortKey(events[j]) = SortKey(events[i]) /\ j < i})

Mut_SortNewestFirst(events) == events

SortNewestFirst(events) ==
    LET rank == [i \in 1..Len(events) |-> SortRank(events, i)]
    IN  [k \in 1..Len(events) |->
            events[CHOOSE i \in 1..Len(events) : rank[i] = k]]

\* the tracker voice_call stores
NewTracker(to, conversation_uuid, now) ==
    [to |-> to, from |-> "LVN", message |-> "hello", status |-> "initiated",
     timestamp |-> now, conversation_uuid |-> conversation_uuid]

\* the tracker voice_call_with_input stores
NewSpeechTracker(to, conversation_uuid, now) ==
    [to |-> to, from |-> "LVN", message |-> "hello", status |-> "initiated",
     timestamp |-> now, conversation_uuid |-> conversation_uuid,
     is_speech_input |-> TRUE, speech_result |-> None]

\* the locals of a poll_call_status task at its start
NewPoll ==
    [pc |-> "init", attempt |-> 0, call_completed |-> FALSE, status_sent |-> {},
     events |-> <<>>, idx |-> 0, delivered |-> <<>>, raised |-> None]

\* yield_fn(message) of the sinks voice_call passes: the message is delivered
\* (logged or returned) and the call returns no awaitable
Deliver(p, message) == [p EXCEPT !.delivered = Append(@, message)]

\* the status message of poll_call_status
StatusMessage(status, body) ==
    CASE status = "started" -> "Call connected, now in progress."
      [] status = "ringing" -> "Phone is ringing."
      [] status = "answered" -> "Call answered."
      [] status = "completed" -> "Call completed successfully."
      [] status = "failed" ->
            "Call failed: " \o (IF Truthy(Get(body, "reason"))
                                THEN body.reason ELSE "unknown reason")
      [] status = "rejected" -> "Call rejected by recipient."
      [] status = "busy" -> "Recipient's line is busy."
      [] status = "timeout" -> "Call timed out, no answer."
      [] OTHER -> "Call status: " \o PyStr(status)

Mut_EndsLoop(status) == status \in TerminalStatuses \cup {"answered"}

\* the statuses on which poll_call_status sets call_completed
EndsLoop(status) == status \in TerminalStatuses

\* an event record's body, None for a record without one
BodyOf(event) == IF "body" \in DOMAIN event THEN event.body ELSE [pytype |-> "NoneType"]

\* active_calls.get(call_uuid, {})
CallInfo(calls, call_uuid) == IF call_uuid \in DOMAIN calls THEN calls[call_uuid] ELSE <<>>

\* the event is for this call: its uuid is the call's, or its conversation_uuid
\* is set and is the tracker's
Mut_EventMatches(calls, call_uuid, body) == Get(body, "uuid") = call_uuid

EventMatches(calls, call_uuid, body) ==
    LET event_conversation_uuid == Get(body, "conversation_uuid")
        conversation_match ==
            /\ Truthy(event_conversation_uuid)
            /\ event_conversation_uuid = Get(CallInfo(calls, call_uuid), "conversation_uuid")
    IN  ~(Get(body, "uuid") # call_uuid /\ ~conversation_match)

\* body.get("dtmf") is None
DtmfIsNone(body) == "dtmf" \notin DOMAIN body \/ body.dtmf.pytype = "NoneType"

\* body.get("speech") is not None
HasSpeech(body) == "speech" \in DOMAIN body /\ body.speech.pytype # "NoneType"

\* body.get("speech", {}).get("results", [{}])[0].get("text"): the exception
\* it raises, or None
PollSpeechRaises(speech) ==
    IF ~IsDict(speech) THEN "AttributeError"
    ELSE IF "results" \notin DOMAIN speech THEN None
    ELSE IF speech.results.pytype # "list" THEN "TypeError"
    ELSE IF speech.results.items = <<>> THEN "IndexError"
    ELSE IF ~IsDict(speech.results.items[1]) THEN "AttributeError"
    ELSE None

\* the first result of a speech mapping, {} when it has no results key
FirstResult(speech) ==
    IF "results" \in DOMAIN speech THEN speech.results.items[1] ELSE [pytype |-> "dict"]

\* the speech-recognition block of poll_call_status for one matching event
SpeechStage(calls, p, call_uuid, body) ==
    LET call_info == CallInfo(calls, call_uuid)
        speech_input == "is_speech_input" \in DOMAIN call_info /\ call_info.is_speech_input
    IN  IF ~(speech_input /\ DtmfIsNone(body) /\ HasSpeech(body))
        THEN [calls |-> calls, p |-> p, raised |-> None]
        ELSE IF PollSpeechRaises(body.speech) # None
        THEN [calls |-> calls, p |-> p, raised |-> PollSpeechRaises(body.speech)]
        ELSE LET speech_result == Get(FirstResult(body.speech), "text")
                 confidence == Get(FirstResult(body.speech), "confidence")
             IN  IF ~Truthy(speech_result)
                 THEN [calls |-> calls, p |-> p, raised |-> None]
                 ELSE \* the sink's answer is no awaitable: `await` raises
                      [calls |-> [calls EXCEPT ![call_uuid] =
                                      SetKey(@, "speech_result", speech_result)],
                       p |-> Deliver(p, "Speech recognized: \"" \o speech_result
                                        \o "\" (confidence: " \o PyStr(confidence) \o ")"),
                       raised |-> "TypeError"]

Mut_MarkSent(status_sent, status) == status_sent

\* status_sent.add(status)
MarkSent(status_sent, status) == status_sent \cup {status}

\* the status block of poll_call_status for one matching event
StatusStage(calls, p, call_uuid, body) ==
    LET status == Get(body, "status")
    IN  IF Get(body, "type") = "transfer"
        THEN IF Truthy(status) /\ status \notin p.status_sent
             THEN \* the sink's answer is no awaitable: `await` raises
                  [calls |-> calls, p |-> Deliver(p, "Call transfer " \o status),
                   raised |-> "TypeError"]
             ELSE [calls |-> calls, p |-> p, raised |-> None]
        ELSE IF "status" \in DOMAIN body /\ status \notin p.status_sent
        THEN LET status_message == StatusMessage(status, body)
                 tracked ==
                     IF call_uuid \in DOMAIN calls
                     THEN [calls EXCEPT ![call_uuid] =
                              SetKey(SetKey(@, "status_updates",
                                            Append(GetOr(@, "status_updates", <<>>),
                                                   status_message)),
                                     "status", status)]
                     ELSE calls
             IN  [calls |-> tracked,
                  p |-> [Deliver(p, status_message) EXCEPT
                            !.call_completed = @ \/ EndsLoop(status),
                            !.status_sent = MarkSent(@, status)],
                  raised |-> None]
        ELSE [calls |-> calls, p |-> p, raised |-> None]

\* the body of `for event in events` of poll_call_status, for one event
ProcessEvent(calls, p, call_uuid, event) ==
    LET body == BodyOf(event)
    IN  IF ~IsDict(body) THEN [calls |-> calls, p |-> p, raised |-> None]
        ELSE IF ~EventMatches(calls, call_uuid, body)
        THEN [calls |-> calls, p |-> p, raised |-> None]
        ELSE LET spoken == SpeechStage(calls, p, call_uuid, body)
             IN  IF spoken.raised # None THEN spoken
                 ELSE StatusStage(spoken.calls, spoken.p, call_uuid, body)

\* the outer `except Exception` of poll_call_status
Abort(p, exc) ==
    [Deliver(p, "Error tracking call: " \o exc) EXCEPT !.pc = "done", !.raised = exc]

\* a poll_call_status task is between two suspension points
Busy == \E c \in DOMAIN poll : poll[c].pc = "process"

\* voice_call, answered 201 with a uuid: the tracker is stored and the
\* Correlator loop is started as a task
VoiceCall(call_uuid, conversation_uuid) ==
    /\ ~Busy
    /\ call_uuid \notin DOMAIN poll
    /\ active_calls' = SetKey(active_calls, call_uuid,
                              NewTracker("447700900001", conversation_uuid, loop_time))
    /\ poll' = SetKey(poll, call_uuid, NewPoll)
    /\ UNCHANGED <<check, loop_time, wait, sms, reaper, env, tool, server>>

\* poll_call_status up to its first suspension: the history is reset and the
\* initial message is sent
PollInit(call_uuid) ==
    /\ ~Busy
    /\ call_uuid \in DOMAIN poll
    /\ poll[call_uuid].pc = "init"
    /\ active_calls' =
           IF call_uuid \in DOMAIN active_calls
           THEN [active_calls EXCEPT ![call_uuid] = SetKey(@, "status_updates", <<>>)]
           ELSE active_calls
    /\ poll' = [poll EXCEPT ![call_uuid] =
                    [Deliver(@, "Call initiated with ID: " \o call_uuid
                                \o ". Tracking call progress...")
                     EXCEPT !.pc = "loop"]]
    /\ UNCHANGED <<check, loop_time, wait, sms, reaper, env, tool, server>>

Mut_PollCycle(call_uuid, answer) ==
    /\ ~Busy
    /\ call_uuid \in DOMAIN poll
    /\ LET p == poll[call_uuid]
           page == ListResult(callback_events, events_limit, 0).events
       IN  /\ p.pc = "loop"
           /\ p.attempt < max_attempts
           /\ poll' = [poll EXCEPT ![call_uuid] =
                  CASE answer = "raises" ->
                          Abort([p EXCEPT !.attempt = @ + 1], "ConnectError")
                    [] answer = "not_200" -> [p EXCEPT !.attempt = @ + 1]
                    [] answer = "200" ->
                          IF page = <<>>
                          THEN [p EXCEPT !.attempt = @ + 1]
                          ELSE [p EXCEPT !.attempt = @ + 1, !.pc = "process",
                                         !.events = SortNewestFirst(page), !.idx = 1]]
    /\ UNCHANGED <<active_calls, check, loop_time, wait, sms, reaper, env, tool, server>>

\* one pass of the while loop up to the answer of GET /events?limit=100
PollCycle(call_uuid, answer) ==
    /\ ~Busy
    /\ call_uuid \in DOMAIN poll
    /\ LET p == poll[call_uuid]
           page == ListResult(callback_events, events_limit, 0).events
       IN  /\ p.pc = "loop"
           /\ p.attempt < max_attempts /\ ~p.call_completed
           /\ poll' = [poll EXCEPT ![call_uuid] =
                  CASE answer = "raises" ->
                          Abort([p EXCEPT !.attempt = @ + 1], "ConnectError")
                    [] answer = "not_200" -> [p EXCEPT !.attempt = @ + 1]
                    [] answer = "200" ->
                          IF page = <<>>
                          THEN [p EXCEPT !.attempt = @ + 1]
                          ELSE [p EXCEPT !.attempt = @ + 1, !.pc = "process",
                                         !.events = SortNewestFirst(page), !.idx = 1]]
    /\ UNCHANGED <<active_calls, check, loop_time, wait, sms, reaper, env, tool, server>>

\* the same, for the first MaxCycles passes of a loop
PollFetch(call_uuid, answer) ==
    /\ call_uuid \in DOMAIN poll
    /\ poll[call_uuid].attempt < MaxCycles
    /\ PollCycle(call_uuid, answer)

\* the body of `for event in events` for the next event of the page
PollEvent(call_uuid) ==
    /\ call_uuid \in DOMAIN poll
    /\ LET p == poll[call_uuid]
           done == ProcessEvent(active_calls, p, call_uuid, p.events[p.idx])
       IN  /\ p.pc = "process"
           /\ active_calls' = done.calls
           /\ poll' = [poll EXCEPT ![call_uuid] =
                  IF done.raised # None THEN Abort(done.p, done.raised)
                  ELSE IF p.idx = Len(p.events)
                  THEN [done.p EXCEPT !.pc = "loop"]
                  ELSE [done.p EXCEPT !.idx = @ + 1]]
    /\ UNCHANGED <<check, loop_time, wait, sms, reaper, env, tool, server>>

Mut_PollExit(call_uuid) ==
    /\ ~Busy
    /\ call_uuid \in DOMAIN poll
    /\ poll[call_uuid].pc = "loop"
    /\ ~(poll[call_uuid].attempt < max_attempts /\ ~poll[call_uuid].call_completed)
    /\ poll' = [poll EXCEPT ![call_uuid] =
           [Deliver(@, "Call tracking timed out. Please check Vonage dashboard for final status.")
            EXCEPT !.pc = "done"]]
    /\ UNCHANGED <<active_calls, check, loop_time, wait, sms, reaper, env, tool, server>>

\* the while loop ends: the final message unless a terminal status was seen
PollExit(call_uuid) ==
    /\ ~Busy
    /\ call_uuid \in DOMAIN poll
    /\ LET p == poll[call_uuid]
       IN  /\ p.pc = "loop"
           /\ ~(p.attempt < max_attempts /\ ~p.call_completed)
           /\ poll' = [poll EXCEPT ![call_uuid] =
                  IF p.call_completed THEN [p EXCEPT !.pc = "done"]
                  ELSE [Deliver(p, "Call tracking timed out. Please check Vonage dashboard for final status.")
                        EXCEPT !.pc = "done"]]
    /\ UNCHANGED <<active_calls, check, loop_time, wait, sms, reaper, env, tool, server>>

(***************************************************************************)
(* check_call_status                                                       *)
(***************************************************************************)
\* the newest event of the page whose body is a dict with this uuid, 0 if none
NewestFor(events, call_uuid) ==
    LET hits == {i \in 1..Len(events) :
                    IsDict(BodyOf(events[i])) /\ Get(BodyOf(events[i]), "uuid") = call_uuid}
    IN  IF hits = {} THEN 0 ELSE Min(hits)

\* check_call_status(call_uuid) up to its GET /events?limit=100
CheckStart(call_uuid) ==
    /\ ~Busy
    /\ check.pc # "await"
    /\ check' = IF call_uuid \in DOMAIN active_calls
                THEN [pc |-> "await", call_uuid |-> call_uuid]
                ELSE [pc |-> "returned", call_uuid |-> call_uuid,
                      answer |-> "No call found"]
    /\ UNCHANGED <<active_calls, poll, loop_time, wait, sms, reaper, env, tool, server>>

\* check_call_status from the answer of its GET on
CheckFinish(answer) ==
    /\ ~Busy
    /\ check.pc = "await"
    /\ LET call_uuid == check.call_uuid
           events == SortNewestFirst(ListResult(callback_events, events_limit, 0).events)
           newest == NewestFor(events, call_uuid)
           live == call_uuid \in DOMAIN active_calls
       IN  /\ active_calls' =
                  IF answer = "200" /\ newest # 0 /\ live
                  THEN [active_calls EXCEPT ![call_uuid] =
                           SetKey(@, "status",
                                  GetOr(events[newest].body, "status", @.status))]
                  ELSE active_calls
           /\ check' = IF live
                       THEN [pc |-> "returned", call_uuid |-> call_uuid,
                             answer |-> "Current status: " \o PyStr(active_calls'[call_uuid].status)]
                       ELSE [pc |-> "raised", call_uuid |-> call_uuid,
                             answer |-> "KeyError"]
    /\ UNCHANGED <<poll, loop_time, wait, sms, reaper, env, tool, server>>

(***************************************************************************)
(* The Correlator loops and check_call_status over a store that receives   *)
(* the provider's events.                                                  *)
(***************************************************************************)
PollRequest(body) == Request(JsonText(body), Headers1, Query1)

PollRequests ==
    { PollRequest(StatusBody("C1", "CV1", "ringing")),
      PollRequest(StatusBody("C1", "CV1", "answered")),
      PollRequest(StatusBody("C1", "CV1", "completed")),
      PollRequest(StatusBody("C2", "CV2", "ringing")) }

GetAnswers == {"200", "not_200", "raises"}

\* the calls made in this specification
PollCalls == {"C1"}

PollNext ==
    \/ \E req \in PollRequests, step \in ClockSteps :
          ReceiveEvent(req, step) /\ UNCHANGED tel_vars
    \/ \E c \in PollCalls : VoiceCall(c, "CV1") /\ UNCHANGED store_vars
    \/ \E c \in PollCalls : PollInit(c) /\ UNCHANGED store_vars
    \/ \E c \in PollCalls, answer \in GetAnswers :
          PollFetch(c, answer) /\ UNCHANGED store_vars
    \/ \E c \in PollCalls : PollEvent(c) /\ UNCHANGED store_vars
    \/ \E c \in PollCalls : PollExit(c) /\ UNCHANGED store_vars
    \/ \E c \in CallIds : CheckStart(c) /\ UNCHANGED store_vars
    \/ \E answer \in GetAnswers : CheckFinish(answer) /\ UNCHANGED store_vars

SpecPoll == Init /\ [][PollNext]_vars

(***************************************************************************)
(* The same, with a provider that reports the progress of a call in order: *)
(* an event is only received if no event of a later stage of the same call *)
(* is in the store.                                                        *)
(***************************************************************************)
StatusRank(status) ==
    CASE status = "initiated" -> 0
      [] status = "ringing" -> 1
      [] status \in {"started", "answered"} -> 2
      [] status \in TerminalStatuses -> 3
      [] OTHER -> 2

InOrder(req) ==
    \A i \in 1..Len(callback_events) :
        LET body == BodyOf(callback_events[i])
        IN  (IsDict(body) /\ Get(body, "uuid") = req.body.value.uuid) =>
                StatusRank(body.status) < StatusRank(req.body.value.status)

OrderedNext ==
    \/ \E req \in PollRequests, step \in ClockSteps :
          InOrder(req) /\ ReceiveEvent(req, step) /\ UNCHANGED tel_vars
    \/ \E c \in PollCalls : VoiceCall(c, "CV1") /\ UNCHANGED store_vars
    \/ \E c \in PollCalls : PollInit(c) /\ UNCHANGED store_vars
    \/ \E c \in PollCalls, answer \in GetAnswers :
          PollFetch(c, answer) /\ UNCHANGED store_vars
    \/ \E c \in PollCalls : PollEvent(c) /\ UNCHANGED store_vars
    \/ \E c \in PollCalls : PollExit(c) /\ UNCHANGED store_vars
    \/ \E c \in CallIds : CheckStart(c) /\ UNCHANGED store_vars
    \/ \E answer \in GetAnswers : CheckFinish(answer) /\ UNCHANGED store_vars

SpecOrdered == Init /\ [][OrderedNext]_vars

(***************************************************************************)
(* get_speech_events: GET /event                                           *)
(***************************************************************************)
\* the event passes the filter of get_speech_events
IsSpeechEvent(event) ==
    LET body == BodyOf(event)
    IN  IsDict(body) /\ "speech" \in DOMAIN body /\ ResultsTruthy(body.speech)

\* the exception get_speech_events raises on this event, or None
SpeechViewRaises(event) ==
    LET body == BodyOf(event)
    IN  IF ~(IsDict(body) /\ "speech" \in DOMAIN body) THEN None
        ELSE IF ~IsDict(body.speech) THEN "AttributeError"
        ELSE IF ~ResultsTruthy(body.speech) THEN None
        ELSE FirstResultRaises(body.speech)

Mut_SpeechView(event) ==
    LET results == event.body.speech.results.items
        last == results[Len(results)]
    IN  [id |-> event.id, timestamp |-> event.timestamp,
         conversation_uuid |-> Get(event.body, "conversation_uuid"),
         text |-> GetOr(last, "text", ""),
         confidence |-> GetOr(last, "confidence", "0"),
         complete_event |-> event]

\* the entry get_speech_events builds for a speech event (the defaults "" and
\* 0 are the strings "" and "0")
SpeechView(event) ==
    LET first == event.body.speech.results.items[1]
    IN  [id |-> event.id, timestamp |-> event.timestamp,
         conversation_uuid |-> Get(event.body, "conversation_uuid"),
         text |-> GetOr(first, "text", ""),
         confidence |-> GetOr(first, "confidence", "0"),
         complete_event |-> event]

\* the answer of get_speech_events on a store holding events
SpeechResult(events) ==
    IF \E i \in 1..Len(events) : SpeechViewRaises(events[i]) # None
    THEN [status_code |-> 500]
    ELSE LET speech == SelectSeq(events, IsSpeechEvent)
         IN  [status_code |-> 200, count |-> Len(speech),
              speech_events |-> [i \in 1..Len(speech) |-> SpeechView(speech[i])]]

get_speech_events == SpeechResult(callback_events)

(***************************************************************************)
(* voice_call_with_input and wait_for_speech_result                        *)
(***************************************************************************)
max_wait_time == 120     \* wait_for_speech_result: max_wait_time
polling_interval == 1    \* wait_for_speech_result: polling_interval

TimeSpread == 2          \* clock readings the model follows after each base

\* the readings of the event-loop clock the model follows: the first seconds
\* of a wait and the seconds around its deadline
TimePoints ==
    UNION {{base + k : k \in 0..TimeSpread} : base \in {0, max_wait_time - 1}}

\* the locals of a wait_for_speech_result call at its start; answered is the
\* outcome of its latest GET
NewWait(call_uuid, now) ==
    [pc |-> "start", call_uuid |-> call_uuid, start_time |-> now, wake_at |-> now,
     answered |-> None, result |-> None, via |-> None]

Mut_Return(w, speech_result, via) ==
    [w EXCEPT !.pc = "sleep", !.result = speech_result, !.via = via]

\* `return speech_result` (`return None` after the loop): via names the place
Return(w, speech_result, via) ==
    [w EXCEPT !.pc = "returned", !.result = speech_result, !.via = via]

\* the head of the while loop up to its first suspension: the deadline, the
\* result already on the tracker, else GET /event is sent
WaitLoop(calls, w, now) ==
    IF ~(now - w.start_time < max_wait_time)
    THEN Return(w, None, "timeout")
    ELSE IF w.call_uuid \in DOMAIN calls /\ Truthy(Get(calls[w.call_uuid], "speech_result"))
    THEN Return(w, calls[w.call_uuid].speech_result, "captured")
    ELSE [w EXCEPT !.pc = "get_speech", !.answered = None]

Mut_FirstMatch(speech_events, call_conversation_uuid) ==
    LET hits == {i \in 1..Len(speech_events) :
                    speech_events[i].conversation_uuid = call_conversation_uuid}
    IN  IF hits = {} THEN 0 ELSE Max(hits)

\* `for event in speech_events: if conversation_uuid == call_conversation_uuid`:
\* the index of the entry the loop stops at, 0 if none
FirstMatch(speech_events, call_conversation_uuid) ==
    LET hits == {i \in 1..Len(speech_events) :
                    speech_events[i].conversation_uuid = call_conversation_uuid}
    IN  IF hits = {} THEN 0 ELSE Min(hits)

Mut_StoreSpeechAnew(calls, call_uuid, speech_result, confidence, now, raw) ==
    SetKey(calls, call_uuid,
           SetKey(SetKey(SetKey(SetKey(CallInfo(calls, call_uuid),
                                       "speech_result", speech_result),
                                "speech_confidence", confidence),
                         "speech_timestamp", now),
                  "speech_raw_data", raw))

Mut_StoreSpeech(calls, call_uuid, speech_result, confidence, now, raw) ==
    IF call_uuid \notin DOMAIN calls THEN calls
    ELSE [c \in DOMAIN calls |->
             IF Get(calls[c], "conversation_uuid") = Get(calls[call_uuid], "conversation_uuid")
             THEN SetKey(SetKey(SetKey(SetKey(calls[c], "speech_result", speech_result),
                                       "speech_confidence", confidence),
                                "speech_timestamp", now),
                         "speech_raw_data", raw)
             ELSE calls[c]]

\* the tracker fields both paths of wait_for_speech_result store
StoreSpeech(calls, call_uuid, speech_result, confidence, now, raw) ==
    IF call_uuid \notin DOMAIN calls THEN calls
    ELSE [calls EXCEPT ![call_uuid] =
             SetKey(SetKey(SetKey(SetKey(@, "speech_result", speech_result),
                                  "speech_confidence", confidence),
                           "speech_timestamp", now),
                    "speech_raw_data", raw)]

\* the scan of the fallback page, newest first: the event it returns on, or
\* the exception that ends it
FallbackScan(calls, call_uuid, page) ==
    LET events == SortNewestFirst(page)
        input(i) ==
            LET body == BodyOf(events[i])
            IN  /\ IsDict(body)
                /\ call_uuid \in DOMAIN calls
                /\ Get(body, "conversation_uuid") = Get(calls[call_uuid], "conversation_uuid")
                /\ DtmfIsNone(body)
                /\ HasSpeech(body)
        raises(i) == SpeechViewRaises(events[i])
        stops == {i \in 1..Len(events) :
                     input(i) /\ (raises(i) # None \/ ResultsTruthy(events[i].body.speech))}
    IN  IF stops = {} THEN [kind |-> "none"]
        ELSE IF raises(Min(stops)) # None
        THEN [kind |-> "raised", raised |-> raises(Min(stops))]
        ELSE [kind |-> "match", event |-> events[Min(stops)]]

\* await asyncio.sleep(polling_interval)
Sleep(w, now) == [w EXCEPT !.pc = "sleep", !.wake_at = now + polling_interval]

\* voice_call_with_input(wait_for_result=True), answered 201 with a uuid: the
\* tracker is stored and wait_for_speech_result runs up to its first GET
VoiceCallWithInput(w, call_uuid, conversation_uuid) ==
    /\ ~Busy
    /\ w \notin DOMAIN wait
    /\ \A earlier \in 1..(w - 1) : earlier \in DOMAIN wait
    /\ loop_time = 0
    /\ active_calls' = SetKey(active_calls, call_uuid,
                              NewSpeechTracker("447700900001", conversation_uuid, loop_time))
    /\ wait' = SetKey(wait, w, WaitLoop(active_calls', NewWait(call_uuid, loop_time), loop_time))
    /\ UNCHANGED <<poll, check, loop_time, sms, reaper, env, tool, server>>

\* wait_for_speech_result from the answer of GET /event on: the first entry
\* of the tracker's conversation is stored and returned, else the fallback
\* GET /events?limit=100 is sent
WaitSpeechAnswer(w, answer) ==
    /\ ~Busy
    /\ w \in DOMAIN wait
    /\ wait[w].pc = "get_speech"
    /\ LET call_uuid == wait[w].call_uuid
           view == get_speech_events
           status == IF answer = "200" /\ view.status_code # 200 THEN "not_200" ELSE answer
           heard == [wait[w] EXCEPT !.answered = status]
           call_conversation_uuid ==
               IF call_uuid \in DOMAIN active_calls
               THEN Get(active_calls[call_uuid], "conversation_uuid") ELSE None
           match == IF status = "200"
                    THEN FirstMatch(view.speech_events, call_conversation_uuid) ELSE 0
       IN  IF match # 0
           THEN LET event == view.speech_events[match]
                    stored == StoreSpeech(active_calls, call_uuid, event.text,
                                          event.confidence, loop_time,
                                          event.complete_event.body.speech.results)
                IN  /\ active_calls' =
                           IF call_uuid \in DOMAIN active_calls
                           THEN [stored EXCEPT ![call_uuid] =
                                    SetKey(@, "speech_event_id", event.id)]
                           ELSE stored
                    /\ wait' = [wait EXCEPT ![w] = Return(heard, event.text, "dedicated")]
           ELSE /\ active_calls' = active_calls
                /\ wait' = [wait EXCEPT ![w] = [heard EXCEPT !.pc = "get_events"]]
    /\ UNCHANGED <<poll, check, loop_time, sms, reaper, env, tool, server>>

\* wait_for_speech_result from the answer of the fallback GET on: the newest
\* speech input of the tracker's conversation is stored and returned, else
\* the call sleeps for polling_interval
WaitEventsAnswer(w, answer) ==
    /\ ~Busy
    /\ w \in DOMAIN wait
    /\ wait[w].pc = "get_events"
    /\ LET call_uuid == wait[w].call_uuid
           heard == [wait[w] EXCEPT !.answered = answer]
           scan == IF answer = "200"
                   THEN FallbackScan(active_calls, call_uuid,
                                     ListResult(callback_events, events_limit, 0).events)
                   ELSE [kind |-> "none"]
       IN  IF scan.kind = "match"
           THEN LET first == scan.event.body.speech.results.items[1]
                    speech_result == GetOr(first, "text", "")
                IN  /\ active_calls' =
                           StoreSpeech(active_calls, call_uuid, speech_result,
                                       GetOr(first, "confidence", "0"), loop_time,
                                       scan.event.body.speech.results)
                    /\ wait' = [wait EXCEPT ![w] = Return(heard, speech_result, "fallback")]
           ELSE /\ active_calls' = active_calls
                /\ wait' = [wait EXCEPT ![w] = Sleep(heard, loop_time)]
    /\ UNCHANGED <<poll, check, loop_time, sms, reaper, env, tool, server>>

\* the sleep is over: the next pass of the while loop
WaitWake(w) ==
    /\ ~Busy
    /\ w \in DOMAIN wait
    /\ wait[w].pc = "sleep"
    /\ loop_time >= wait[w].wake_at
    /\ wait' = [wait EXCEPT ![w] = WaitLoop(active_calls, @, loop_time)]
    /\ UNCHANGED <<active_calls, poll, check, loop_time, sms, reaper, env, tool, server>>

\* the event-loop clock moves on to a later reading
Tick(now) ==
    /\ now > loop_time
    /\ loop_time' = now
    /\ UNCHANGED <<active_calls, poll, check, wait, sms, reaper, env, tool, server>>

(***************************************************************************)
(* Waits for speech input over a store that receives the provider's events.*)
(***************************************************************************)
NoItem == SpeechItem("no", "0.5")

\* a speech input as the provider reports it, with a dtmf mapping beside it
InputBody(conv, speech) ==
    [pytype |-> "dict", conversation_uuid |-> conv, speech |-> speech,
     dtmf |-> [pytype |-> "dict", digits |-> None]]

WaitRequests ==
    { PollRequest(SpeechBody("CV1", SpeechDict(ResultsList(<<YesItem>>)))),
      PollRequest(SpeechBody("CV1", SpeechDict(ResultsList(<<NoItem, YesItem>>)))),
      PollRequest(InputBody("CV1", SpeechDict(ResultsList(<<SpeechItem("maybe", "0.7")>>)))),
      PollRequest(StatusBody("C1", "CV1", "answered")) }

\* the callers of this specification
WaitIds == {1}

WaitNext ==
    \/ \E req \in WaitRequests, step \in ClockSteps :
          ReceiveEvent(req, step) /\ UNCHANGED tel_vars
    \/ \E w \in WaitIds : VoiceCallWithInput(w, "C1", "CV1") /\ UNCHANGED store_vars
    \/ \E w \in WaitIds, answer \in GetAnswers :
          WaitSpeechAnswer(w, answer) /\ UNCHANGED store_vars
    \/ \E w \in WaitIds, answer \in GetAnswers :
          WaitEventsAnswer(w, answer) /\ UNCHANGED store_vars
    \/ \E w \in WaitIds : WaitWake(w) /\ UNCHANGED store_vars
    \/ \E now \in TimePoints : Tick(now) /\ UNCHANGED store_vars

SpecWait == Init /\ [][WaitNext]_vars

(***************************************************************************)
(* Two waits on one call: the provider answers a second voice_call_with_   *)
(* input with the uuid of the first, whose wait is still in progress.      *)
(***************************************************************************)
CaptureRequests ==
    { PollRequest(SpeechBody("CV1", SpeechDict(ResultsList(<<YesItem>>)))),
      PollRequest(SpeechBody("CV2", SpeechDict(ResultsList(<<NoItem>>)))) }

CaptureIds == {1, 2}

CaptureAnswers == {"200", "raises"}

CaptureNext ==
    \/ \E req \in CaptureRequests, step \in ClockSteps :
          ReceiveEvent(req, step) /\ UNCHANGED tel_vars
    \/ \E w \in CaptureIds : VoiceCallWithInput(w, "C1", "CV1") /\ UNCHANGED store_vars
    \/ \E w \in CaptureIds, answer \in CaptureAnswers :
          WaitSpeechAnswer(w, answer) /\ UNCHANGED store_vars
    \/ \E w \in CaptureIds, answer \in CaptureAnswers :
          WaitEventsAnswer(w, answer) /\ UNCHANGED store_vars
    \/ \E w \in CaptureIds : WaitWake(w) /\ UNCHANGED store_vars
    \/ \E now \in TimePoints : Tick(now) /\ UNCHANGED store_vars

SpecCapture == Init /\ [][CaptureNext]_vars

(***************************************************************************)
(* sms_with_input and wait_for_sms_callback_event                          *)
(***************************************************************************)
sms_max_wait_time == 180   \* wait_for_sms_callback_event: max_wait_time

\* the clock readings the model follows during a wait for a reply
SmsTimePoints ==
    UNION {{base + k : k \in 0..TimeSpread} : base \in {0, sms_max_wait_time - 1}}

\* the locals of a wait_for_sms_callback_event call at its start; answered is
\* the outcome of its latest GET, report is what sms_with_input returns
NewSmsWait(recipient_msisdn, now) ==
    [pc |-> "start", recipient_msisdn |-> recipient_msisdn, start_time |-> now,
     wake_at |-> now, answered |-> None, result |-> None, via |-> None,
     report |-> None, already_seen |-> {}]

\* what sms_with_input returns once wait_for_sms_callback_event has returned
SmsReport(to, event_text) ==
    IF Truthy(event_text)
    THEN "SMS sent to " \o to \o ". Received reply event: \"" \o event_text
         \o "\" Recipient: " \o to
    ELSE "SMS sent to " \o to \o ", but no event received within timeout."

\* `return text` / `return None` of the wait, and the caller's report
SmsReturn(s, text, via) ==
    [s EXCEPT !.pc = "returned", !.result = text, !.via = via,
              !.report = SmsReport(s.recipient_msisdn, text)]

\* the head of the while loop up to its GET /events?limit=100
SmsLoop(s, now) ==
    IF ~(now - s.start_time < sms_max_wait_time)
    THEN SmsReturn(s, None, "timeout")
    ELSE [s EXCEPT !.pc = "get", !.answered = None]

\* body.get("msisdn") of event.get("body", {}): the exception it raises, or None
MsisdnRaises(event) ==
    IF "body" \in DOMAIN event /\ ~IsDict(event.body) THEN "AttributeError" ELSE None

\* `for event in reversed(events)`: the event the scan returns on, or the
\* exception that ends it
SmsScan(page, recipient_msisdn, already_seen) ==
    LET stops == {i \in 1..Len(page) :
                     \/ MsisdnRaises(page[i]) # None
                     \/ /\ "body" \in DOMAIN page[i]
                        /\ Get(page[i].body, "msisdn") = recipient_msisdn
                        /\ page[i].id \notin already_seen}
    IN  IF stops = {} THEN [kind |-> "none"]
        ELSE IF MsisdnRaises(page[Max(stops)]) # None
        THEN [kind |-> "raised", raised |-> MsisdnRaises(page[Max(stops)])]
        ELSE [kind |-> "match", event |-> page[Max(stops)]]

\* sms_with_input(wait_for_result=True), the SMS accepted by the provider:
\* wait_for_sms_callback_event runs up to its first GET
SmsWithInput(s, to) ==
    /\ ~Busy
    /\ s \notin DOMAIN sms
    /\ loop_time = 0
    /\ sms' = SetKey(sms, s, SmsLoop(NewSmsWait(to, loop_time), loop_time))
    /\ UNCHANGED <<active_calls, poll, check, loop_time, wait, reaper, env, tool, server>>

\* wait_for_sms_callback_event from the answer of its GET on: the text of the
\* newest event of the page for the recipient is returned, else the call
\* sleeps for one second
SmsAnswer(s, answer) ==
    /\ ~Busy
    /\ s \in DOMAIN sms
    /\ sms[s].pc = "get"
    /\ LET heard == [sms[s] EXCEPT !.answered = answer]
           scan == IF answer = "200"
                   THEN SmsScan(ListResult(callback_events, events_limit, 0).events,
                                sms[s].recipient_msisdn, sms[s].already_seen)
                   ELSE [kind |-> "none"]
       IN  sms' = [sms EXCEPT ![s] =
                      IF scan.kind = "match"
                      THEN [SmsReturn(heard, Get(scan.event.body, "text"), "match")
                            EXCEPT !.already_seen = @ \cup {scan.event.id}]
                      ELSE Sleep(heard, loop_time)]
    /\ UNCHANGED <<active_calls, poll, check, loop_time, wait, reaper, env, tool, server>>

\* the sleep is over: the next pass of the while loop
SmsWake(s) ==
    /\ ~Busy
    /\ s \in DOMAIN sms
    /\ sms[s].pc = "sleep"
    /\ loop_time >= sms[s].wake_at
    /\ sms' = [sms EXCEPT ![s] = SmsLoop(@, loop_time)]
    /\ UNCHANGED <<active_calls, poll, check, loop_time, wait, reaper, env, tool, server>>

(***************************************************************************)
(* A wait for a reply over a store that receives the provider's events.    *)
(***************************************************************************)
Recipient == "447700900001"

\* a reply without a text
NoTextBody(msisdn) == [pytype |-> "dict", msisdn |-> msisdn]

SmsRequests ==
    { PollRequest(SmsBody(Recipient, "ok")),
      PollRequest(SmsBody(Recipient, "")),
      PollRequest(NoTextBody(Recipient)),
      PollRequest(SmsBody("447700900002", "other")),
      PollRequest(StatusBody("C1", "CV1", "answered")) }

SmsIds == {1}

SmsNext ==
    \/ \E req \in SmsRequests, step \in ClockSteps :
          ReceiveEvent(req, step) /\ UNCHANGED tel_vars
    \/ \E s \in SmsIds : SmsWithInput(s, Recipient) /\ UNCHANGED store_vars
    \/ \E s \in SmsIds, answer \in GetAnswers :
          SmsAnswer(s, answer) /\ UNCHANGED store_vars
    \/ \E s \in SmsIds : SmsWake(s) /\ UNCHANGED store_vars
    \/ \E now \in SmsTimePoints : Tick(now) /\ UNCHANGED store_vars

SpecSms == Init /\ [][SmsNext]_vars

(***************************************************************************)
(* clean_expired_calls                                                     *)
(***************************************************************************)
retention == 3600      \* clean_expired_calls: age in seconds above which a call is removed

Mut_IsExpired(info, current_time) ==
    current_time - GetOr(info, "timestamp", current_time) >= retention

\* current_time - info.get("timestamp", current_time) > 3600
IsExpired(info, current_time) ==
    current_time - GetOr(info, "timestamp", current_time) > retention

\* the registry after `del active_calls[call_uuid]` for every expired call
WithoutExpired(calls, current_time) ==
    [c \in {x \in DOMAIN calls : ~IsExpired(calls[x], current_time)} |-> calls[c]]

\* one run of clean_expired_calls (it has no suspension point)
CleanExpiredCalls ==
    /\ ~Busy
    /\ active_calls' = WithoutExpired(active_calls, loop_time)
    /\ reaper' = [ran |-> TRUE, current_time |-> loop_time]
    /\ UNCHANGED <<poll, check, loop_time, wait, sms, env, tool, server>>

\* voice_call_with_input(wait_for_result=False), answered 201 with a uuid: the
\* tracker is stored and the tool returns
InputCall(call_uuid, conversation_uuid) ==
    /\ ~Busy
    /\ loop_time <= TimeSpread
    /\ active_calls' = SetKey(active_calls, call_uuid,
                              NewSpeechTracker("447700900001", conversation_uuid, loop_time))
    /\ UNCHANGED <<poll, check, loop_time, wait, sms, reaper, env, tool, server>>

(***************************************************************************)
(* The registry, a Correlator loop and the sweep, over a clock that        *)
(* reaches the retention window.                                           *)
(***************************************************************************)
ReaperTimePoints ==
    UNION {{base + k : k \in 0..TimeSpread} : base \in {0, retention}}

ReaperRequests ==
    { PollRequest(StatusBody("C1", "CV1", "ringing")),
      PollRequest(StatusBody("C1", "CV1", "completed")) }

InputCalls == {"C2"}

ReaperNext ==
    \/ \E req \in ReaperRequests, step \in ClockSteps :
          ReceiveEvent(req, step) /\ UNCHANGED tel_vars
    \/ \E c \in PollCalls : VoiceCall(c, "CV1") /\ UNCHANGED store_vars
    \/ \E c \in InputCalls :
          c \notin DOMAIN active_calls /\ InputCall(c, "CV2") /\ UNCHANGED store_vars
    \/ \E c \in PollCalls : PollInit(c) /\ UNCHANGED store_vars
    \/ \E c \in PollCalls, answer \in GetAnswers :
          PollFetch(c, answer) /\ UNCHANGED store_vars
    \/ \E c \in PollCalls : PollEvent(c) /\ UNCHANGED store_vars
    \/ \E c \in PollCalls : PollExit(c) /\ UNCHANGED store_vars
    \/ \E now \in ReaperTimePoints : Tick(now) /\ UNCHANGED store_vars
    \/ CleanExpiredCalls /\ UNCHANGED store_vars

SpecReaper == Init /\ [][ReaperNext]_vars

(***************************************************************************)
(* A Correlator loop followed through all of its attempts, over a store    *)
(* that receives few events.                                               *)
(***************************************************************************)
ExhaustRequests ==
    { PollRequest(StatusBody("C1", "CV1", "ringing")),
      PollRequest(StatusBody("C1", "CV1", "completed")) }

ExhaustNext ==
    \/ \E req \in ExhaustRequests, step \in ClockSteps :
          ReceiveEvent(req, step) /\ UNCHANGED tel_vars
    \/ \E c \in PollCalls : VoiceCall(c, "CV1") /\ UNCHANGED store_vars
    \/ \E c \in PollCalls : PollInit(c) /\ UNCHANGED store_vars
    \/ \E c \in PollCalls, answer \in GetAnswers :
          PollCycle(c, answer) /\ UNCHANGED store_vars
    \/ \E c \in PollCalls : PollEvent(c) /\ UNCHANGED store_vars
    \/ \E c \in PollCalls : PollExit(c) /\ UNCHANGED store_vars

SpecExhaust == Init /\ [][ExhaustNext]_vars

(***************************************************************************)
(* A Correlator loop over a store that receives transfer events.           *)
(***************************************************************************)
TransferBody(uuid, conv, status) ==
    [pytype |-> "dict", uuid |-> uuid, conversation_uuid |-> conv,
     type |-> "transfer", status |-> status]

SinkRequests ==
    { PollRequest(StatusBody("C1", "CV1", "ringing")),
      PollRequest(TransferBody("C1", "CV1", "transferred")),
      PollRequest(StatusBody("C1", "CV1", "completed")) }

SinkNext ==
    \/ \E req \in SinkRequests, step \in ClockSteps :
          ReceiveEvent(req, step) /\ UNCHANGED tel_vars
    \/ \E c \in PollCalls : VoiceCall(c, "CV1") /\ UNCHANGED store_vars
    \/ \E c \in PollCalls : PollInit(c) /\ UNCHANGED store_vars
    \/ \E c \in PollCalls, answer \in GetAnswers :
          PollFetch(c, answer) /\ UNCHANGED store_vars
    \/ \E c \in PollCalls : PollEvent(c) /\ UNCHANGED store_vars
    \/ \E c \in PollCalls : PollExit(c) /\ UNCHANGED store_vars

SpecSink == Init /\ [][SinkNext]_vars

(***************************************************************************)
(* The outbound tools: voice_call, voice_call_with_input, send_sms and     *)
(* sms_with_input, from their invocation to the answer of their POST.      *)
(***************************************************************************)
VoiceTools == {"voice_call", "voice_call_with_input"}

SmsTools == {"send_sms", "sms_with_input"}

\* the state of the private key file VONAGE_PRIVATE_KEY_PATH names
KeyFiles == {"valid", "missing", "empty", "not_a_key"}

Envs ==
    [VONAGE_API_KEY : BOOLEAN, VONAGE_API_SECRET : BOOLEAN,
     VONAGE_APPLICATION_ID : BOOLEAN, VONAGE_PRIVATE_KEY_PATH : BOOLEAN,
     VONAGE_LVN : BOOLEAN]

\* auth.generate_vonage_jwt: a token, or None
generate_vonage_jwt(application_id, key_file) ==
    IF ~application_id THEN None
    ELSE IF key_file = "missing" THEN None
    ELSE IF key_file = "empty" THEN None
    ELSE IF key_file = "not_a_key" THEN None
    ELSE "jwt_token"

\* the first test of each tool on the settings
CredentialsConfigured(name) ==
    IF name \in VoiceTools
    THEN /\ env.VONAGE_API_KEY
         /\ env.VONAGE_API_SECRET
         /\ env.VONAGE_APPLICATION_ID
         /\ env.VONAGE_PRIVATE_KEY_PATH
    ELSE env.VONAGE_API_KEY /\ env.VONAGE_API_SECRET

CredentialsMessage(name) ==
    IF name \in VoiceTools
    THEN "Vonage API credentials are not fully configured."
    ELSE "Vonage API credentials are not fully configured for SMS."

SourceMessage == "Source number (from_) is not provided and VONAGE_LVN is not set."

\* an invocation: its arguments, the key file it found, where it stands, the
\* POSTs it has issued, the value it returned and the answer to its POST
NewInvocation(name, from_given, wait_for_result, key_file) ==
    [name |-> name, from_given |-> from_given, wait_for_result |-> wait_for_result,
     key_file |-> key_file, pc |-> "called", requests |-> 0, returned |-> None,
     answer |-> [raises |-> FALSE, status_code |-> 0, body |-> "none"]]

\* a tool up to its POST: the tests on the settings and on from_, the token
\* of the voice tools, and the request
Invoke(name, from_given, wait_for_result, key_file) ==
    LET call == NewInvocation(name, from_given, wait_for_result, key_file)
    IN IF ~CredentialsConfigured(name)
       THEN [call EXCEPT !.pc = "returned", !.returned = CredentialsMessage(name)]
       ELSE IF ~(from_given \/ env.VONAGE_LVN)
       THEN [call EXCEPT !.pc = "returned", !.returned = SourceMessage]
       ELSE IF /\ name \in VoiceTools
               /\ ~Truthy(generate_vonage_jwt(env.VONAGE_APPLICATION_ID, key_file))
       THEN [call EXCEPT !.pc = "returned", !.returned = None]
       ELSE [call EXCEPT !.pc = "posted", !.requests = @ + 1]

ToolCall(t, name, from_given, wait_for_result, key_file) ==
    /\ ~Busy
    /\ t \notin DOMAIN tool
    /\ tool' = SetKey(tool, t, Invoke(name, from_given, wait_for_result, key_file))
    /\ UNCHANGED <<active_calls, poll, check, loop_time, wait, sms, reaper, env, server>>

Raised == [raises |-> TRUE, status_code |-> 0, body |-> "none"]

Response(status_code, body) == [raises |-> FALSE, status_code |-> status_code, body |-> body]

\* response.status_code == 201
Mut_Created(status_code) == status_code < 400

Created(status_code) == status_code = 201

FailedCall(status_code) == "Failed to initiate call: " \o ToString(status_code)

\* what a voice tool does with the answer of its POST: the value it returns
\* (None while it waits), whether it stores a tracker, and what it starts
VoiceOutcome(name, wait_for_result, answer) ==
    IF answer.raises
    THEN [returned |-> "Error initiating call: ConnectError", tracker |-> FALSE,
          starts |-> "nothing"]
    ELSE IF answer.status_code >= 400
    THEN [returned |-> FailedCall(answer.status_code), tracker |-> FALSE,
          starts |-> "nothing"]
    ELSE IF ~Created(answer.status_code)
    THEN [returned |-> FailedCall(answer.status_code), tracker |-> FALSE,
          starts |-> "nothing"]
    ELSE IF answer.body = "not_json"
    THEN [returned |-> "Voice call initiated to " \o Recipient
                       \o ", but error setting up progress tracking: JSONDecodeError",
          tracker |-> FALSE, starts |-> "nothing"]
    ELSE IF answer.body = "no_uuid"
    THEN [returned |-> (IF name = "voice_call" THEN "Voice call initiated to "
                        ELSE "Voice call with input initiated to ")
                       \o Recipient \o ", but no tracking ID available.",
          tracker |-> FALSE, starts |-> "nothing"]
    ELSE IF name = "voice_call"
    THEN [returned |-> "Voice call initiated to " \o Recipient
                       \o ". Call tracking started with ID: " \o answer.body
                       \o ". Use check_call_status tool to get updates.",
          tracker |-> TRUE, starts |-> "loop"]
    ELSE IF ~wait_for_result
    THEN [returned |-> "Voice call with input initiated to " \o Recipient
                       \o ". Call tracking started with ID: " \o answer.body
                       \o ". Use check_call_status tool to get updates.",
          tracker |-> TRUE, starts |-> "nothing"]
    ELSE [returned |-> None, tracker |-> TRUE, starts |-> "wait"]

\* a voice tool from the answer of its POST to its return or to the first
\* request of its wait
VoiceAnswer(t, answer) ==
    /\ ~Busy
    /\ t \in DOMAIN tool
    /\ tool[t].pc = "posted"
    /\ tool[t].name \in VoiceTools
    /\ LET name == tool[t].name
           out == VoiceOutcome(name, tool[t].wait_for_result, answer)
           call_uuid == answer.body
       IN /\ tool' = [tool EXCEPT ![t].answer = answer,
                                  ![t].returned = out.returned,
                                  ![t].pc = IF out.starts = "wait" THEN "waiting"
                                            ELSE "returned"]
          /\ active_calls' =
                 IF ~out.tracker THEN active_calls
                 ELSE IF name = "voice_call"
                 THEN SetKey(active_calls, call_uuid,
                             NewTracker(Recipient, "CV1", loop_time))
                 ELSE SetKey(active_calls, call_uuid,
                             NewSpeechTracker(Recipient, "CV1", loop_time))
          /\ poll' = IF out.starts = "loop" THEN SetKey(poll, call_uuid, NewPoll)
                     ELSE poll
          /\ wait' = IF out.starts = "wait"
                     THEN SetKey(wait, t, WaitLoop(active_calls',
                                                   NewWait(call_uuid, loop_time),
                                                   loop_time))
                     ELSE wait
    /\ UNCHANGED <<check, loop_time, sms, reaper, env, server>>

\* response.status_code == 200 with messages[0].status == "0"
Accepted(answer) == answer.status_code = 200 /\ answer.body = "status_0"

\* what an SMS tool does with the answer of its POST
SmsOutcome(name, wait_for_result, answer) ==
    IF answer.raises
    THEN [returned |-> "Error sending SMS: ConnectError", starts |-> "nothing"]
    ELSE IF answer.status_code # 200
    THEN [returned |-> "Failed to send SMS: " \o ToString(answer.status_code),
          starts |-> "nothing"]
    ELSE IF answer.body = "not_json"
    THEN [returned |-> "Error sending SMS: JSONDecodeError", starts |-> "nothing"]
    ELSE IF answer.body = "no_messages"
    THEN [returned |-> "Error sending SMS: 'messages'", starts |-> "nothing"]
    ELSE IF ~Accepted(answer)
    THEN [returned |-> "Failed to send SMS: " \o answer.body, starts |-> "nothing"]
    ELSE IF name = "send_sms"
    THEN [returned |-> "SMS sent to " \o Recipient \o ".", starts |-> "nothing"]
    ELSE IF ~wait_for_result
    THEN [returned |-> "SMS sent to " \o Recipient
                       \o ". Waiting for event tracking is disabled.",
          starts |-> "nothing"]
    ELSE [returned |-> None, starts |-> "wait"]

\* an SMS tool from the answer of its POST to its return or to the first
\* request of its wait
SmsSendAnswer(t, answer) ==
    /\ ~Busy
    /\ t \in DOMAIN tool
    /\ tool[t].pc = "posted"
    /\ tool[t].name \in SmsTools
    /\ LET out == SmsOutcome(tool[t].name, tool[t].wait_for_result, answer)
       IN /\ tool' = [tool EXCEPT ![t].answer = answer,
                                  ![t].returned = out.returned,
                                  ![t].pc = IF out.starts = "wait" THEN "waiting"
                                            ELSE "returned"]
          /\ sms' = IF out.starts = "wait"
                    THEN SetKey(sms, t, SmsLoop(NewSmsWait(Recipient, loop_time),
                                                loop_time))
                    ELSE sms
    /\ UNCHANGED <<active_calls, poll, check, loop_time, wait, reaper, env, server>>

ToolIds == {1}

VoiceAnswers ==
    {Raised} \cup {Response(201, body) : body \in {"C1", "no_uuid", "not_json"}}
             \cup {Response(status_code, "text") : status_code \in {200, 400}}

SmsAnswers ==
    {Raised} \cup {Response(200, body) :
                      body \in {"status_0", "status_1", "no_messages", "not_json"}}
             \cup {Response(500, "text")}

ToolsInit == StoreInit /\ RegistryInit /\ env \in Envs

ToolsNext ==
    \/ \E t \in ToolIds, name \in VoiceTools \cup SmsTools, from_given \in BOOLEAN,
          wait_for_result \in BOOLEAN, key_file \in KeyFiles :
          ToolCall(t, name, from_given, wait_for_result, key_file) /\ UNCHANGED store_vars
    \/ \E t \in ToolIds, answer \in VoiceAnswers :
          VoiceAnswer(t, answer) /\ UNCHANGED store_vars
    \/ \E t \in ToolIds, answer \in SmsAnswers :
          SmsSendAnswer(t, answer) /\ UNCHANGED store_vars

SpecTools == ToolsInit /\ [][ToolsNext]_vars

(***************************************************************************)
(* The Correlator loop on a store that holds more records than one page    *)
(* of GET /events?limit=100: events of earlier calls arrive first, then    *)
(* the call is placed and one more event arrives.                          *)
(***************************************************************************)
\* an event of an earlier call
EarlierRequest == PollRequest(StatusBody("C2", "CV2", "completed"))

BacklogRequests == {PollRequest(StatusBody("C1", "CV1", "answered"))}

BacklogFull == Len(callback_events) >= events_limit

BacklogNext ==
    \/ \E step \in ClockSteps :
          /\ ~BacklogFull
          /\ receive_event(EarlierRequest, step)
          /\ UNCHANGED <<inflight, issued>>
          /\ UNCHANGED tel_vars
    \/ \E req \in BacklogRequests, step \in ClockSteps :
          /\ BacklogFull
          /\ Len(callback_events) < events_limit + 1
          /\ receive_event(req, step)
          /\ UNCHANGED <<inflight, issued>>
          /\ UNCHANGED tel_vars
    \/ \E c \in PollCalls : BacklogFull /\ VoiceCall(c, "CV1") /\ UNCHANGED store_vars
    \/ \E c \in PollCalls : PollInit(c) /\ UNCHANGED store_vars
    \/ \E c \in PollCalls, answer \in GetAnswers :
          PollCycle(c, answer) /\ UNCHANGED store_vars
    \/ \E c \in PollCalls : PollEvent(c) /\ UNCHANGED store_vars
    \/ \E c \in PollCalls : PollExit(c) /\ UNCHANGED store_vars

SpecBacklog == Init /\ [][BacklogNext]_vars

(***************************************************************************)
(* A Correlator loop whose tracker awaits a speech result: voice_call      *)
(* starts the loop and voice_call_with_input, answered with the same uuid, *)
(* stores the tracker that awaits the result.                              *)
(***************************************************************************)
SpokenRequests ==
    { PollRequest(SpeechBody("CV1", SpeechDict(ResultsList(<<YesItem>>)))),
      PollRequest(StatusBody("C1", "CV1", "completed")) }

SpokenNext ==
    \/ \E req \in SpokenRequests, step \in ClockSteps :
          ReceiveEvent(req, step) /\ UNCHANGED tel_vars
    \/ \E c \in PollCalls : VoiceCall(c, "CV1") /\ UNCHANGED store_vars
    \/ \E c \in PollCalls : InputCall(c, "CV1") /\ UNCHANGED store_vars
    \/ \E c \in PollCalls : PollInit(c) /\ UNCHANGED store_vars
    \/ \E c \in PollCalls, answer \in GetAnswers :
          PollFetch(c, answer) /\ UNCHANGED store_vars
    \/ \E c \in PollCalls : PollEvent(c) /\ UNCHANGED store_vars
    \/ \E c \in PollCalls : PollExit(c) /\ UNCHANGED store_vars

SpecSpoken == Init /\ [][SpokenNext]_vars

(***************************************************************************)
(* Two calls of one conversation: a Correlator loop for the first, a wait  *)
(* for speech on the second, and check_call_status on either.              *)
(***************************************************************************)
FrameRequests ==
    { PollRequest(StatusBody("C2", "CV1", "completed")),
      PollRequest(SpeechBody("CV1", SpeechDict(ResultsList(<<YesItem>>)))) }

FrameAnswers == {"200"}

FrameNext ==
    \/ \E req \in FrameRequests, step \in ClockSteps :
          ReceiveEvent(req, step) /\ UNCHANGED tel_vars
    \/ VoiceCall("C1", "CV1") /\ UNCHANGED store_vars
    \/ VoiceCallWithInput(1, "C2", "CV1") /\ UNCHANGED store_vars
    \/ PollInit("C1") /\ UNCHANGED store_vars
    \/ \E answer \in FrameAnswers : PollFetch("C1", answer) /\ UNCHANGED store_vars
    \/ PollEvent("C1") /\ UNCHANGED store_vars
    \/ PollExit("C1") /\ UNCHANGED store_vars
    \/ \E answer \in FrameAnswers : WaitSpeechAnswer(1, answer) /\ UNCHANGED store_vars
    \/ \E answer \in GetAnswers : WaitEventsAnswer(1, answer) /\ UNCHANGED store_vars
    \/ WaitWake(1) /\ UNCHANGED store_vars
    \/ Tick(polling_interval) /\ UNCHANGED store_vars
    \/ \E c \in CallIds : CheckStart(c) /\ UNCHANGED store_vars
    \/ \E answer \in FrameAnswers : CheckFinish(answer) /\ UNCHANGED store_vars

SpecFrame == Init /\ [][FrameNext]_vars

(***************************************************************************)
(* The Correlator loop through all its attempts, over events of every      *)
(* terminal status.                                                        *)
(***************************************************************************)
TerminalRequests ==
    {PollRequest(StatusBody("C1", "CV1", status)) :
        status \in TerminalStatuses \cup {"ringing"}}

TerminalNext ==
    \/ \E req \in TerminalRequests, step \in ClockSteps :
          ReceiveEvent(req, step) /\ UNCHANGED tel_vars
    \/ \E c \in PollCalls : VoiceCall(c, "CV1") /\ UNCHANGED store_vars
    \/ \E c \in PollCalls : PollInit(c) /\ UNCHANGED store_vars
    \/ \E c \in PollCalls, answer \in GetAnswers :
          PollCycle(c, answer) /\ UNCHANGED store_vars
    \/ \E c \in PollCalls : PollEvent(c) /\ UNCHANGED store_vars
    \/ \E c \in PollCalls : PollExit(c) /\ UNCHANGED store_vars

SpecTerminal == Init /\ [][TerminalNext]_vars

(***************************************************************************)
(* The Correlator loop over events that match its tracker by uuid, by      *)
(* conversation_uuid, by both or by neither.                               *)
(***************************************************************************)
\* a status event that carries no uuid
ConversationBody(conv, status) ==
    [pytype |-> "dict", conversation_uuid |-> conv, status |-> status]

MatchRequests ==
    { PollRequest(StatusBody("C1", "CV1", "ringing")),
      PollRequest(StatusBody("C9", "CV1", "answered")),
      PollRequest(ConversationBody("CV1", "completed")),
      PollRequest(StatusBody("C2", "CV2", "busy")),
      PollRequest([pytype |-> "list", has_speech |-> FALSE]) }

MatchAnswers == {"200"}

MatchNext ==
    \/ \E req \in MatchRequests, step \in ClockSteps :
          ReceiveEvent(req, step) /\ UNCHANGED tel_vars
    \/ \E c \in PollCalls : VoiceCall(c, "CV1") /\ UNCHANGED store_vars
    \/ \E c \in PollCalls : PollInit(c) /\ UNCHANGED store_vars
    \/ \E c \in PollCalls, answer \in MatchAnswers :
          PollFetch(c, answer) /\ UNCHANGED store_vars
    \/ \E c \in PollCalls : PollEvent(c) /\ UNCHANGED store_vars
    \/ \E c \in PollCalls : PollExit(c) /\ UNCHANGED store_vars

SpecMatch == Init /\ [][MatchNext]_vars

(***************************************************************************)
(* Two calls of sms_with_input to one recipient, the second after the      *)
(* first has returned.                                                     *)
(***************************************************************************)
StaleRequests ==
    { PollRequest(SmsBody(Recipient, "ok")),
      PollRequest(SmsBody("447700900002", "other")) }

StaleIds == {1, 2}

StaleNext ==
    \/ \E req \in StaleRequests, step \in ClockSteps :
          ReceiveEvent(req, step) /\ UNCHANGED tel_vars
    \/ \E s \in StaleIds :
          /\ \A earlier \in 1..(s - 1) :
                earlier \in DOMAIN sms /\ sms[earlier].pc = "returned"
          /\ SmsWithInput(s, Recipient)
          /\ UNCHANGED store_vars
    \/ \E s \in StaleIds, answer \in GetAnswers :
          SmsAnswer(s, answer) /\ UNCHANGED store_vars
    \/ \E s \in StaleIds : SmsWake(s) /\ UNCHANGED store_vars
    \/ \E now \in SmsTimePoints : Tick(now) /\ UNCHANGED store_vars

SpecStale == Init /\ [][StaleNext]_vars

(***************************************************************************)
(* The callback server with its speech view: POST /event and GET /event.   *)
(***************************************************************************)
GetSpeechEvents ==
    /\ resp' = [op |-> "get_speech_events", result |-> get_speech_events]
    /\ UNCHANGED <<callback_events, wall, inflight, issued>>

SpeechRequests ==
    { PollRequest(SpeechBody("CV1", SpeechDict(ResultsList(<<NoItem, YesItem>>)))),
      PollRequest(SpeechBody("CV2", SpeechDict(ResultsList(<<[pytype |-> "dict"]>>)))),
      PollRequest(SpeechBody("CV1", SpeechDict(ResultsList(<<>>)))),
      PollRequest(SpeechBody("CV1", [pytype |-> "NoneType"])),
      PollRequest(SpeechBody("CV1", SpeechDict(ResultsList(<<[pytype |-> "str"]>>)))),
      PollRequest(StatusBody("C1", "CV1", "answered")),
      Request(NotJson, Headers1, Query1) }

SpeechNext ==
    \/ \E req \in SpeechRequests, step \in ClockSteps :
          ReceiveEvent(req, step) /\ UNCHANGED tel_vars
    \/ GetSpeechEvents /\ UNCHANGED tel_vars

SpecSpeech == Init /\ [][SpeechNext]_vars

(***************************************************************************)
(* The two tools that create trackers: voice_call, which starts a          *)
(* Correlator loop as a task, and voice_call_with_input, which starts      *)
(* none. The provider reports on the calls once both were placed. The      *)
(* event loop runs every task that is ready.                               *)
(***************************************************************************)
OutstandingRequests ==
    { PollRequest(StatusBody("C1", "CV1", "completed")),
      PollRequest(StatusBody("C2", "CV2", "completed")) }

OutstandingAnswers == {"200"}

\* a step of the poll_call_status task of call_uuid
LoopTask(call_uuid) ==
    \/ PollInit(call_uuid)
    \/ \E answer \in OutstandingAnswers : PollCycle(call_uuid, answer)
    \/ PollEvent(call_uuid)
    \/ PollExit(call_uuid)

OutstandingNext ==
    \/ /\ CallIds \subseteq DOMAIN active_calls
       /\ \E req \in OutstandingRequests, step \in ClockSteps : ReceiveEvent(req, step)
       /\ UNCHANGED tel_vars
    \/ VoiceCall("C1", "CV1") /\ UNCHANGED store_vars
    \/ InputCall("C2", "CV2") /\ UNCHANGED store_vars
    \/ LoopTask("C1") /\ UNCHANGED store_vars

SpecOutstanding == Init /\ [][OutstandingNext]_vars

FairOutstanding ==
    /\ SpecOutstanding
    /\ WF_vars(LoopTask("C1") /\ UNCHANGED store_vars)

(***************************************************************************)
(* The handlers of the callback server on its event loop: a receive_event  *)
(* is suspended while its body arrives, and clear_events and list_events   *)
(* run in between.                                                         *)
(***************************************************************************)
ConcurrentRequests ==
    { Request(JsonText(StatusBody("C1", "CV1", "ringing")), Headers1, Query1),
      Request(NotJson, Headers1, Query2),
      Request(NotUtf8, Headers2, Query1) }

ConcurrentNext ==
    \/ \E req \in ConcurrentRequests : ReceiveSuspend(req) /\ UNCHANGED tel_vars
    \/ \E req \in ConcurrentRequests, step \in ClockSteps :
          ReceiveResume(req, step) /\ UNCHANGED tel_vars
    \/ \E limit \in SliceArgs, skip \in SliceArgs :
          ListEvents(limit, skip) /\ UNCHANGED tel_vars
    \/ ClearEvents /\ UNCHANGED tel_vars

SpecConcurrent == Init /\ [][ConcurrentNext]_vars

(***************************************************************************)
(* Appends and clears under a wall clock that may read the same value      *)
(* twice: datetime.now() is as fine as the system clock and is not         *)
(* monotonic.                                                              *)
(***************************************************************************)
IdRequests ==
    { Request(JsonText(StatusBody("C1", "CV1", "ringing")), Headers1, Query1),
      Request(NotUtf8, Headers1, Query1) }

\* the clock readings of two successive requests are equal or advance
CoarseSteps == {0} \cup ClockSteps

IdNext ==
    \/ \E req \in IdRequests, step \in CoarseSteps :
          IssueEvent(req, step) /\ UNCHANGED tel_vars
    \/ ClearEvents /\ UNCHANGED tel_vars

SpecIds == Init /\ [][IdNext]_vars

(***************************************************************************)
(* A Correlator loop over a store that holds a transfer event with the     *)
(* status value of the call's terminal event.                              *)
(***************************************************************************)
TransferRequests ==
    { PollRequest(StatusBody("C1", "CV1", "ringing")),
      PollRequest(TransferBody("C1", "CV1", "completed")),
      PollRequest(StatusBody("C1", "CV1", "completed")) }

TransferAnswers == {"200", "not_200"}

TransferNext ==
    \/ \E req \in TransferRequests, step \in ClockSteps :
          ReceiveEvent(req, step) /\ UNCHANGED tel_vars
    \/ VoiceCall("C1", "CV1") /\ UNCHANGED store_vars
    \/ PollInit("C1") /\ UNCHANGED store_vars
    \/ \E answer \in TransferAnswers : PollFetch("C1", answer) /\ UNCHANGED store_vars
    \/ PollEvent("C1") /\ UNCHANGED store_vars
    \/ PollExit("C1") /\ UNCHANGED store_vars

SpecTransfer == Init /\ [][TransferNext]_vars

(***************************************************************************)
(* Tasks that outlive their tracker: a Correlator loop, a wait for speech  *)
(* and check_call_status, with the sweep running once the retention window *)
(* has passed.                                                             *)
(***************************************************************************)
EvictRequests ==
    { PollRequest(StatusBody("C1", "CV1", "completed")),
      PollRequest(AnonymousSpeechBody(SpeechDict(ResultsList(<<YesItem>>)))) }

EvictAnswers == {"200"}

EvictNext ==
    \/ \E req \in EvictRequests, step \in ClockSteps :
          ReceiveEvent(req, step) /\ UNCHANGED tel_vars
    \/ VoiceCall("C1", "CV1") /\ UNCHANGED store_vars
    \/ VoiceCallWithInput(1, "C2", "CV2") /\ UNCHANGED store_vars
    \/ PollInit("C1") /\ UNCHANGED store_vars
    \/ \E answer \in EvictAnswers : PollFetch("C1", answer) /\ UNCHANGED store_vars
    \/ PollEvent("C1") /\ UNCHANGED store_vars
    \/ PollExit("C1") /\ UNCHANGED store_vars
    \/ \E answer \in EvictAnswers : WaitSpeechAnswer(1, answer) /\ UNCHANGED store_vars
    \/ \E answer \in EvictAnswers : WaitEventsAnswer(1, answer) /\ UNCHANGED store_vars
    \/ \E c \in CallIds : CheckStart(c) /\ UNCHANGED store_vars
    \/ \E answer \in EvictAnswers : CheckFinish(answer) /\ UNCHANGED store_vars
    \/ Tick(retention + 1) /\ UNCHANGED store_vars
    \/ CleanExpiredCalls /\ UNCHANGED store_vars

SpecEvict == Init /\ [][EvictNext]_vars

(***************************************************************************)
(* A wait for a reply over a store that receives, while the wait is in     *)
(* progress, the reply and records of other shapes: a JSON array, a body   *)
(* that is no JSON, and a request that is answered 500.                    *)
(***************************************************************************)
ShapeRequests ==
    { PollRequest(SmsBody(Recipient, "ok")),
      PollRequest([pytype |-> "list", has_speech |-> FALSE]),
      Request(NotJson, Headers1, Query1),
      Request(NotUtf8, Headers1, Query1) }

ShapeAnswers == {"200"}

\* the wait s has started and its deadline has not passed
Waiting(s) ==
    /\ s \in DOMAIN sms
    /\ sms[s].pc # "returned"
    /\ loop_time - sms[s].start_time < sms_max_wait_time

ShapeNext ==
    \/ \E req \in ShapeRequests, step \in ClockSteps :
          Waiting(1) /\ ReceiveEvent(req, step) /\ UNCHANGED tel_vars
    \/ SmsWithInput(1, Recipient) /\ UNCHANGED store_vars
    \/ \E answer \in ShapeAnswers : SmsAnswer(1, answer) /\ UNCHANGED store_vars
    \/ SmsWake(1) /\ UNCHANGED store_vars
    \/ \E now \in SmsTimePoints : Tick(now) /\ UNCHANGED store_vars

SpecShapes == Init /\ [][ShapeNext]_vars

(***************************************************************************)
(* The store under all of its readers: the endpoints of the callback       *)
(* server, a Correlator loop and a wait for speech.                        *)
(***************************************************************************)
KeepRequests ==
    { PollRequest(SpeechBody("CV1", SpeechDict(ResultsList(<<YesItem>>)))),
      PollRequest(StatusBody("C1", "CV1", "completed")) }

KeepAnswers == {"200"}

KeepNext ==
    \/ \E req \in KeepRequests, step \in ClockSteps :
          ReceiveEvent(req, step) /\ UNCHANGED tel_vars
    \/ ListEvents(events_limit, 0) /\ UNCHANGED tel_vars
    \/ GetEvent(<<"evt", 1, 1>>) /\ UNCHANGED tel_vars
    \/ GetSpeechEvents /\ UNCHANGED tel_vars
    \/ ClearEvents /\ UNCHANGED tel_vars
    \/ VoiceCall("C1", "CV1") /\ UNCHANGED store_vars
    \/ PollInit("C1") /\ UNCHANGED store_vars
    \/ \E answer \in KeepAnswers : PollFetch("C1", answer) /\ UNCHANGED store_vars
    \/ PollEvent("C1") /\ UNCHANGED store_vars
    \/ PollExit("C1") /\ UNCHANGED store_vars
    \/ VoiceCallWithInput(1, "C2", "CV1") /\ UNCHANGED store_vars
    \/ \E answer \in KeepAnswers : WaitSpeechAnswer(1, answer) /\ UNCHANGED store_vars
    \/ \E answer \in KeepAnswers : WaitEventsAnswer(1, answer) /\ UNCHANGED store_vars

SpecKeep == Init /\ [][KeepNext]_vars

(***************************************************************************)
(* The process from its start: the periodic_cleanup task, the registry and *)
(* the clock, up to the retention window and one cleanup interval more.    *)
(***************************************************************************)
Entries == {"main.py", "telephony_server.py"}

\* the start of the process up to telephony_mcp.run
Serve(entry, loop_is_running) ==
    /\ server.pc = "stopped"
    /\ server' = Served(entry, loop_is_running, loop_time)
    /\ UNCHANGED <<active_calls, poll, check, loop_time, wait, sms, reaper, env, tool>>

\* one pass of the `while True` of periodic_cleanup: the sleep is over,
\* clean_expired_calls runs, and the task sleeps again
PeriodicCleanup ==
    /\ ~Busy
    /\ server.cleanup = "sleeping"
    /\ loop_time >= server.wake_at
    /\ active_calls' = WithoutExpired(active_calls, loop_time)
    /\ reaper' = [ran |-> TRUE, current_time |-> loop_time]
    /\ server' = [server EXCEPT !.wake_at = loop_time + cleanup_interval]
    /\ UNCHANGED <<poll, check, loop_time, wait, sms, env, tool>>

ServerTimePoints ==
    UNION {{base + k : k \in 0..TimeSpread} :
              base \in {0, retention, retention + cleanup_interval}}

ServerInit ==
    /\ StoreInit
    /\ TasksInit
    /\ env = FullEnv
    /\ server = [pc |-> "stopped", entry |-> None, cleanup |-> "none", wake_at |-> 0]

ServerTick == \E now \in ServerTimePoints : Tick(now) /\ UNCHANGED store_vars

ServerNext ==
    \/ \E entry \in Entries, loop_is_running \in BOOLEAN :
          Serve(entry, loop_is_running) /\ UNCHANGED store_vars
    \/ \E c \in CallIds :
          /\ server.pc = "running"
          /\ c \notin DOMAIN active_calls
          /\ InputCall(c, "CV2")
          /\ UNCHANGED store_vars
    \/ ServerTick
    \/ PeriodicCleanup /\ UNCHANGED store_vars

SpecServer == ServerInit /\ [][ServerNext]_vars

\* the clock goes on and a task whose sleep is over is resumed
FairServer ==
    /\ SpecServer
    /\ WF_vars(ServerTick)
    /\ WF_vars(PeriodicCleanup /\ UNCHANGED store_vars)

(***************************************************************************)
(* Claims about the event store and Ingress.                               *)
(***************************************************************************)
Last(s) == s[Len(s)]

IsEventRecord(e) ==
    {"id", "timestamp", "endpoint", "headers", "query_params", "body"} \subseteq DOMAIN e

\* C1: every POST /event whose body is not parseable as JSON is answered 200
\* "success" and leaves, as the newest record of the store, an event whose body
\* holds the raw text and a parse_error marker.
C1_MalformedBodyStored ==
    (resp.op = "receive_event" /\ JsonLoads(resp.request.body).raised # None) =>
        /\ resp.status_code = 200
        /\ resp.status = "success"
        /\ callback_events # <<>>
        /\ IsEventRecord(Last(callback_events))
        /\ {"raw", "parse_error"} \subseteq DOMAIN Last(callback_events).body

C1_Witness ==
    /\ resp.op = "receive_event"
    /\ resp.request.body = NotUtf8
    /\ resp.status_code = 500

\* C2: every POST /event whose body is well-formed JSON, of any shape, is
\* answered 200 and stored as a normal event record holding that payload;
\* none is answered 500 or replaced by an error record.
C2_AnyJsonShapeStored ==
    (resp.op = "receive_event" /\ JsonLoads(resp.request.body).raised = None) =>
        /\ resp.status_code = 200
        /\ callback_events # <<>>
        /\ IsEventRecord(Last(callback_events))
        /\ Last(callback_events).body = resp.request.body.value

C2_Witness ==
    /\ resp.op = "receive_event"
    /\ resp.request.body \in {JsonText([pytype |-> "int"]),
                              JsonText(SpeechBody("CV1", [pytype |-> "NoneType"]))}
    /\ resp.status_code = 500
    /\ "error" \in DOMAIN Last(callback_events)

\* what Ingress is to store as the body of a request it accepts
ReceivedBody(req) ==
    IF req.body.enc = "json"
    THEN req.body.value
    ELSE [pytype |-> "dict", raw |-> req.body.text, parse_error |-> "JSONDecodeError"]

SameAsReceived(result, req) ==
    /\ result.status_code = 200
    /\ result.event.headers = req.headers
    /\ result.event.query_params = req.query_params
    /\ result.event.body = ReceivedBody(req)

SameAsStored(result, e) ==
    /\ result.status_code = 200
    /\ result.event.headers = e.headers
    /\ result.event.query_params = e.query_params
    /\ result.event.body = e.body

\* C3: round trip. The record an accepted POST /event appends is returned by
\* get_event under its id with the headers, query_params and body that were
\* received; every stored event is returned by get_event under its id with the
\* fields it holds; and the answer for a stored id is the same after every
\* step but a clear.
C3_RoundTrip ==
    /\ [](\A i \in 1..Len(callback_events) :
             IsEventRecord(callback_events[i]) =>
                 SameAsStored(get_event(callback_events[i].id), callback_events[i]))
    /\ [][(resp'.op = "receive_event" /\ resp'.status_code = 200) =>
             /\ Len(callback_events') = Len(callback_events) + 1
             /\ SameAsReceived(GetResult(callback_events', Last(callback_events').id),
                               resp'.request)]_vars
    /\ [][resp'.op # "clear_events" =>
             \A i \in 1..Len(callback_events) :
                 IsEventRecord(callback_events[i]) =>
                     GetResult(callback_events', callback_events[i].id) =
                         GetResult(callback_events, callback_events[i].id)]_vars

C3_Witness ==
    /\ resp.op = "get_event"
    /\ resp.result.status_code = 200
    /\ Len(callback_events) = MaxEvents
    /\ resp.event_id = callback_events[1].id
    /\ callback_events[1].id[2] = 1
    /\ callback_events[1].id[3] > 1
    /\ "parse_error" \in DOMAIN resp.result.event.body

\* C4: for non-negative limit and skip, list_events answers count = the number
\* of stored records and events = the records at positions skip+1 ..
\* min(skip+limit, count) of the store, in store order, and does not change
\* the store.
C4_ListIsSlice ==
    /\ [](resp.op = "list_events" /\ resp.limit >= 0 /\ resp.skip >= 0 =>
            LET n == Len(callback_events)
                hi == Min({resp.skip + resp.limit, n})
                page == resp.result.events
            IN  /\ resp.result.count = n
                /\ Len(page) = (IF hi > resp.skip THEN hi - resp.skip ELSE 0)
                /\ \A k \in 1..Len(page) : page[k] = callback_events[resp.skip + k])
    /\ [][resp'.op = "list_events" => callback_events' = callback_events]_vars

C4_Witness ==
    /\ resp.op = "list_events"
    /\ resp.skip = 1
    /\ resp.limit = 1
    /\ Len(callback_events) = 3
    /\ resp.result.count = 3
    /\ resp.result.events = <<callback_events[2]>>

\* C5: clear_events on a store of N records answers cleared = N and leaves the
\* store empty: right after it every list_events answers count 0 with an empty
\* page and get_event answers 404 for every id the store held.
C5_ClearEmpties ==
    [][resp'.op = "clear_events" =>
         /\ resp'.cleared = Len(callback_events)
         /\ callback_events' = <<>>
         /\ \A limit \in SliceArgs, skip \in SliceArgs :
                ListResult(callback_events', limit, skip) = [count |-> 0, events |-> <<>>]
         /\ \A i \in 1..Len(callback_events) :
                GetResult(callback_events', callback_events[i].id).status_code = 404]_vars

C5_Witness ==
    /\ resp.op = "clear_events"
    /\ resp.cleared = MaxEvents
    /\ callback_events = <<>>

(***************************************************************************)
(* Claims about the Correlator loop.                                       *)
(***************************************************************************)
Count(seq, S) == Cardinality({i \in 1..Len(seq) : seq[i] \in S})

PollBodies == {req.body.value : req \in PollRequests}

StatusValues == {body.status : body \in PollBodies}

\* the messages a status value can put into the history
MessagesOf(status) == {StatusMessage(status, body) : body \in PollBodies}

History(call_uuid) == GetOr(active_calls[call_uuid], "status_updates", <<>>)

\* C6: in every state, for every tracker with a Correlator loop and every
\* status value, the status history holds at most one entry for that value and
\* the sink has been sent at most one message for it, however often the store
\* returns events with that status.
C6_StatusOncePerTracker ==
    \A c \in DOMAIN poll \cap DOMAIN active_calls : \A status \in StatusValues :
        /\ Count(History(c), MessagesOf(status)) <= 1
        /\ Count(poll[c].delivered, MessagesOf(status)) <= 1

RingingEvents ==
    {i \in 1..Len(callback_events) :
        callback_events[i].body = StatusBody("C1", "CV1", "ringing")}

C6_Witness ==
    /\ "C1" \in DOMAIN poll \cap DOMAIN active_calls
    /\ poll["C1"].pc = "loop"
    /\ poll["C1"].attempt = MaxCycles
    /\ Len(poll["C1"].events) = MaxEvents
    /\ Cardinality(RingingEvents) >= 2
    /\ History("C1") = <<"Phone is ringing.">>
    /\ poll["C1"].delivered =
           <<"Call initiated with ID: C1. Tracking call progress...", "Phone is ringing.">>

IsRinging(event, call_uuid) ==
    /\ IsDict(BodyOf(event))
    /\ Get(event.body, "uuid") = call_uuid
    /\ Get(event.body, "status") = "ringing"
    /\ Get(event.body, "type") # "transfer"

\* C7: a poll cycle that starts with nothing reported yet and whose page is a
\* single event {uuid: C, status: "ringing"} leaves the tracker with history
\* ["Phone is ringing."], status "ringing", and the loop not completed and
\* polling on. In every state, a loop that is marked completed has seen a
\* terminal status.
C7_RingingKeepsPolling ==
    /\ [](\A c \in DOMAIN poll :
             poll[c].call_completed => poll[c].status_sent \cap TerminalStatuses # {})
    /\ [][\A c \in DOMAIN poll \cap DOMAIN active_calls :
             (/\ poll[c].pc = "process"
              /\ poll[c].status_sent = {}
              /\ Len(poll[c].events) = 1
              /\ IsRinging(poll[c].events[1], c)
              /\ History(c) = <<>>
              /\ poll'[c] # poll[c]) =>
                 /\ active_calls'[c].status_updates = <<"Phone is ringing.">>
                 /\ active_calls'[c].status = "ringing"
                 /\ ~poll'[c].call_completed
                 /\ poll'[c].pc = "loop"]_vars

C7_Witness ==
    /\ "C1" \in DOMAIN poll \cap DOMAIN active_calls
    /\ poll["C1"].pc = "loop"
    /\ poll["C1"].attempt = 1
    /\ Len(poll["C1"].events) = 1
    /\ IsRinging(poll["C1"].events[1], "C1")
    /\ History("C1") = <<"Phone is ringing.">>
    /\ active_calls["C1"].status = "ringing"
    /\ ~poll["C1"].call_completed

\* C8: no step moves a tracker's status to an earlier stage of initiated ->
\* ringing -> started/answered -> terminal, and a terminal status is never
\* changed.
C8_StatusNeverRegresses ==
    [][\A c \in DOMAIN active_calls \cap DOMAIN active_calls' :
         /\ StatusRank(active_calls'[c].status) >= StatusRank(active_calls[c].status)
         /\ active_calls[c].status \in TerminalStatuses =>
                active_calls'[c].status = active_calls[c].status]_vars

C8_Witness ==
    /\ "C1" \in DOMAIN poll \cap DOMAIN active_calls
    /\ poll["C1"].call_completed
    /\ poll["C1"].pc = "done"
    /\ active_calls["C1"].status = "ringing"
    /\ History("C1") = <<"Call completed successfully.", "Call answered.", "Phone is ringing.">>

(***************************************************************************)
(* Claims about wait_for_speech_result.                                    *)
(***************************************************************************)
\* the events of the store that carry a speech result for the conversation of
\* the tracker call_uuid
MatchingSpeech(call_uuid) ==
    {i \in 1..Len(callback_events) :
        LET event == callback_events[i]
        IN  /\ "body" \in DOMAIN event
            /\ event.body.pytype = "dict"
            /\ "conversation_uuid" \in DOMAIN event.body
            /\ event.body.conversation_uuid = active_calls[call_uuid].conversation_uuid
            /\ "speech" \in DOMAIN event.body
            /\ event.body.speech.pytype = "dict"
            /\ "results" \in DOMAIN event.body.speech
            /\ event.body.speech.results.pytype = "list"
            /\ event.body.speech.results.items # <<>>}

FirstText(i) == callback_events[i].body.speech.results.items[1].text

FirstConfidence(i) == callback_events[i].body.speech.results.items[1].confidence

\* the speech inputs the fallback scan takes: those without a dtmf value
WithoutDtmf(call_uuid) ==
    {i \in MatchingSpeech(call_uuid) : DtmfIsNone(callback_events[i].body)}

\* this step is a step of the wait w in which it gets the answer 200 to a GET
ReadsStore(w) ==
    /\ w \in DOMAIN wait
    /\ wait[w].pc \in {"get_speech", "get_events"}
    /\ wait'[w] # wait[w]
    /\ wait'[w].answered = "200"
    /\ wait[w].call_uuid \in DOMAIN active_calls

\* this step is a step of the wait w in which it wakes up before its deadline
\* and finds a result on its tracker
FindsCaptured(w) ==
    /\ w \in DOMAIN wait
    /\ wait[w].pc = "sleep"
    /\ wait'[w] # wait[w]
    /\ loop_time - wait[w].start_time < max_wait_time
    /\ wait[w].call_uuid \in DOMAIN active_calls
    /\ Truthy(active_calls[wait[w].call_uuid].speech_result)

\* C9: a step in which a wait reads a store that holds a speech result for its
\* conversation, or finds a result already on its tracker, is the step in
\* which it returns a result; a wait that has returned takes no further step
\* (no sleep, no poll).
C9_ReturnsOnFirstMatch ==
    /\ [][\A w \in DOMAIN wait : wait[w].pc = "returned" => wait'[w] = wait[w]]_vars
    /\ [][\A w \in DOMAIN wait :
             /\ (ReadsStore(w) /\ wait[w].pc = "get_speech"
                    /\ MatchingSpeech(wait[w].call_uuid) # {}) =>
                     /\ wait'[w].pc = "returned"
                     /\ wait'[w].result \in
                            {FirstText(i) : i \in MatchingSpeech(wait[w].call_uuid)}
             /\ (ReadsStore(w) /\ wait[w].pc = "get_events"
                    /\ WithoutDtmf(wait[w].call_uuid) # {}) =>
                     /\ wait'[w].pc = "returned"
                     /\ wait'[w].result \in
                            {FirstText(i) : i \in WithoutDtmf(wait[w].call_uuid)}
             /\ FindsCaptured(w) =>
                     /\ wait'[w].pc = "returned"
                     /\ wait'[w].result = active_calls[wait[w].call_uuid].speech_result]_vars

C9_Witness ==
    /\ DOMAIN wait = {1, 2}
    /\ wait[1].pc = "returned" /\ wait[1].via = "dedicated" /\ wait[1].result = "yes"
    /\ wait[2].pc = "returned" /\ wait[2].via = "captured" /\ wait[2].result = "yes"
    /\ loop_time = polling_interval

ReturnsEvent(w, i) ==
    /\ wait'[w].pc = "returned"
    /\ wait'[w].result = FirstText(i)
    /\ active_calls'[wait[w].call_uuid].speech_result = FirstText(i)
    /\ active_calls'[wait[w].call_uuid].speech_confidence = FirstConfidence(i)

TimedOutReport(to) == "SMS sent to " \o to \o ", but no event received within timeout."

\* C11: a wait that has returned has produced the timed-out outcome (None)
\* exactly when it ended by its deadline and not by a matching event; it ends
\* by its deadline only once max_wait_time has passed since its start; and
\* the caller's report is the timed-out report exactly when the wait ended by
\* its deadline, also for a reply without text or with an empty text.
C11_TimedOutIffBudgetElapsed ==
    /\ \A s \in DOMAIN sms : sms[s].pc = "returned" =>
           /\ (sms[s].result = None) <=> (sms[s].via = "timeout")
           /\ (sms[s].via = "timeout") =>
                  loop_time - sms[s].start_time >= sms_max_wait_time
           /\ (sms[s].report = TimedOutReport(sms[s].recipient_msisdn))
                  <=> (sms[s].via = "timeout")
    /\ \A w \in DOMAIN wait : wait[w].pc = "returned" =>
           /\ (wait[w].result = None) <=> (wait[w].via = "timeout")
           /\ (wait[w].via = "timeout") =>
                  loop_time - wait[w].start_time >= max_wait_time

C11_Witness ==
    /\ DOMAIN sms = {1}
    /\ sms[1].pc = "returned"
    /\ sms[1].via = "match"
    /\ sms[1].result = None
    /\ sms[1].report = TimedOutReport(Recipient)
    /\ loop_time < sms_max_wait_time

(***************************************************************************)
(* Claims about the sweep of the registry.                                 *)
(***************************************************************************)
Age(info) == loop_time - info.timestamp

\* C12: a run of clean_expired_calls at time now removes every tracker with
\* now - timestamp > 3600, keeps every tracker with now - timestamp <= 3600
\* with all its fields unchanged, and adds none.
C12_SweepRemovesOnlyExpired ==
    [][reaper' # reaper =>
          /\ DOMAIN active_calls' \subseteq DOMAIN active_calls
          /\ \A c \in DOMAIN active_calls :
                 IF Age(active_calls[c]) > 3600
                 THEN c \notin DOMAIN active_calls'
                 ELSE c \in DOMAIN active_calls' /\ active_calls'[c] = active_calls[c]]_vars

C12_Witness ==
    /\ reaper.ran
    /\ reaper.current_time = loop_time
    /\ loop_time = retention + 1
    /\ "C1" \in DOMAIN poll
    /\ "C1" \notin DOMAIN active_calls
    /\ "C2" \in DOMAIN active_calls
    /\ Age(active_calls["C2"]) = retention

(***************************************************************************)
(* Claims about the creation of trackers.                                  *)
(***************************************************************************)
\* C13: a tool invocation that the provider answers with a call uuid already
\* in the registry stores no tracker and starts no wait: every step that
\* starts a wait does so for a uuid that was not in the registry, and leaves
\* every tracker that was in the registry as it was.
C13_DuplicateIdRejected ==
    [][\A w \in DOMAIN wait' \ DOMAIN wait :
          /\ wait'[w].call_uuid \notin DOMAIN active_calls
          /\ \A c \in DOMAIN active_calls :
                 c \in DOMAIN active_calls' /\ active_calls'[c] = active_calls[c]]_vars

C13_Witness ==
    /\ DOMAIN wait = {1, 2}
    /\ wait[1].pc = "returned" /\ wait[1].via = "dedicated" /\ wait[1].result = "yes"
    /\ wait[2].pc = "get_speech"
    /\ active_calls["C1"].speech_result = None
    /\ "speech_confidence" \notin DOMAIN active_calls["C1"]

(***************************************************************************)
(* Claims about the end of a Correlator loop.                              *)
(***************************************************************************)
TimedOutMessage == "Call tracking timed out. Please check Vonage dashboard for final status."

\* C14: a loop that has not ended has sent no "tracking timed out" message; a
\* loop that ended without error after a terminal status has sent none; a
\* loop that ended without error and without a terminal status has used all
\* max_attempts attempts, has sent the message exactly once, as its last
\* message, and its tracker's status is not terminal; the step that ends a
\* loop leaves the registry unchanged.
C14_TimedOutMessageOnce ==
    /\ [](\A c \in DOMAIN poll :
             LET sent == Count(poll[c].delivered, {TimedOutMessage})
             IN  IF poll[c].pc = "done" /\ poll[c].raised = None /\ ~poll[c].call_completed
                 THEN /\ poll[c].attempt = max_attempts
                      /\ sent = 1
                      /\ Last(poll[c].delivered) = TimedOutMessage
                      /\ c \in DOMAIN active_calls =>
                             active_calls[c].status \notin TerminalStatuses
                 ELSE sent = 0)
    /\ [][\A c \in DOMAIN poll :
             (poll[c].pc = "loop" /\ poll'[c].pc = "done" /\ poll'[c].raised = None) =>
                 active_calls' = active_calls]_vars

C14_Witness ==
    /\ "C1" \in DOMAIN poll \cap DOMAIN active_calls
    /\ poll["C1"].pc = "done"
    /\ poll["C1"].attempt = max_attempts
    /\ ~poll["C1"].call_completed
    /\ poll["C1"].delivered =
           <<"Call initiated with ID: C1. Tracking call progress...",
             "Phone is ringing.", TimedOutMessage>>
    /\ active_calls["C1"].status = "ringing"

(***************************************************************************)
(* Claims about failures inside a Correlator loop.                         *)
(***************************************************************************)
PollErrors == {"TypeError", "AttributeError", "IndexError", "ConnectError"}

ErrorMessages == {"Error tracking call: " \o exc : exc \in PollErrors}

\* the notifications the loop of call_uuid sends in this step
Notified(call_uuid) ==
    {poll'[call_uuid].delivered[i] :
        i \in (Len(poll[call_uuid].delivered) + 1)..Len(poll'[call_uuid].delivered)}
    \ ErrorMessages

\* C15: no step in which a Correlator loop hands a notification to its sink
\* ends the loop with an error: after the step the loop is still at the next
\* event or the next poll cycle, or has ended regularly.
C15_SinkNeverAbortsLoop ==
    [][\A c \in DOMAIN poll \cap DOMAIN poll' :
          Notified(c) # {} => poll'[c].raised = None]_vars

C15_Witness ==
    /\ "C1" \in DOMAIN poll
    /\ poll["C1"].pc = "done"
    /\ poll["C1"].raised = "TypeError"
    /\ ~poll["C1"].call_completed
    /\ poll["C1"].attempt < max_attempts
    /\ poll["C1"].idx < Len(poll["C1"].events)
    /\ Count(poll["C1"].delivered, {"Call transfer transferred"}) = 1
    /\ Last(poll["C1"].delivered) = "Error tracking call: TypeError"

\* C16: a Correlator loop that is in its while loop and whose tracker is no
\* longer in the registry raises no error, issues no further GET to the event
\* store and sends no further notification.
C16_EvictedLoopStops ==
    [][\A c \in DOMAIN poll \cap DOMAIN poll' :
          (c \notin DOMAIN active_calls /\ poll[c].pc \in {"loop", "process"}) =>
              /\ poll'[c].raised = None
              /\ poll'[c].attempt = poll[c].attempt
              /\ poll'[c].delivered = poll[c].delivered]_vars

C16_Witness ==
    /\ "C1" \in DOMAIN poll
    /\ "C1" \notin DOMAIN active_calls
    /\ reaper.ran
    /\ poll["C1"].raised = None
    /\ poll["C1"].pc = "process"
    /\ poll["C1"].attempt = 1
    /\ poll["C1"].idx = 2
    /\ poll["C1"].delivered =
           <<"Call initiated with ID: C1. Tracking call progress...", "Phone is ringing.">>

\* C17: a poll cycle whose read of the event store fails, by a non-200 answer
\* or by a raised network error, does not end the loop: after the step in
\* which the loop gets the answer to its GET it has raised nothing and is
\* still in its while loop, so that the next cycle follows.
C17_FailedReadCostsOneCycle ==
    [][\A c \in DOMAIN poll \cap DOMAIN poll' :
          (poll[c].pc = "loop" /\ poll'[c].attempt = poll[c].attempt + 1) =>
              /\ poll'[c].raised = None
              /\ poll'[c].pc \in {"loop", "process"}]_vars

C17_Witness ==
    /\ "C1" \in DOMAIN poll \cap DOMAIN active_calls
    /\ poll["C1"].pc = "done"
    /\ poll["C1"].raised = "ConnectError"
    /\ poll["C1"].attempt = 1
    /\ ~poll["C1"].call_completed
    /\ poll["C1"].delivered =
           <<"Call initiated with ID: C1. Tracking call progress...",
             "Error tracking call: ConnectError">>
    /\ \E i \in 1..Len(callback_events) :
           callback_events[i].body = StatusBody("C1", "CV1", "completed")
    /\ active_calls["C1"].status = "initiated"

(***************************************************************************)
(* Claims about the outbound tools.                                        *)
(***************************************************************************)
RegistryUntouched ==
    /\ active_calls = <<>>
    /\ poll = <<>>
    /\ wait = <<>>
    /\ sms = <<>>

\* a setting the tool requires is not set
SettingMissing(call) == ~CredentialsConfigured(call.name)

\* neither from_ nor VONAGE_LVN gives an origin address
OriginMissing(call) == ~(call.from_given \/ env.VONAGE_LVN)

\* the private key of a voice tool is not there
KeyMissing(call) == call.name \in VoiceTools /\ call.key_file \in {"missing", "empty"}

ConfigurationMissing(call) ==
    SettingMissing(call) \/ OriginMissing(call) \/ KeyMissing(call)

\* C18: an outbound tool invoked while a required credential or the origin
\* address is missing returns a user-facing message, has issued no request,
\* and has left the registry, the loops and the waits as they were
C18_MissingConfigurationReported ==
    \A t \in DOMAIN tool :
        ConfigurationMissing(tool[t]) =>
            /\ tool[t].pc = "returned"
            /\ tool[t].requests = 0
            /\ tool[t].returned # None
            /\ RegistryUntouched

\* a voice tool found the settings and the origin but no private key
C18_Witness ==
    \E t \in DOMAIN tool :
        /\ KeyMissing(tool[t])
        /\ ~SettingMissing(tool[t])
        /\ ~OriginMissing(tool[t])
        /\ tool[t].pc = "returned"

\* what remains true: whatever is missing, no request, no tracker, no loop
\* and no wait
C18_NothingAttempted ==
    \A t \in DOMAIN tool :
        ConfigurationMissing(tool[t]) =>
            /\ tool[t].pc = "returned"
            /\ tool[t].requests = 0
            /\ RegistryUntouched

\* the transport answered the POST of a tool with a failure
TransportFailed(call) ==
    /\ call.pc \notin {"called", "posted"}
    /\ call.requests > 0
    /\ \/ call.answer.raises
       \/ IF call.name \in VoiceTools
          THEN call.answer.status_code # 201
          ELSE call.answer.status_code # 200 \/ call.answer.body # "status_0"

FailureReports ==
    {"Error initiating call: ConnectError", "Error sending SMS: ConnectError",
     "Error sending SMS: JSONDecodeError", "Error sending SMS: 'messages'",
     "Failed to send SMS: status_1"}
    \cup {FailedCall(status_code) : status_code \in {200, 400}}
    \cup {"Failed to send SMS: " \o ToString(500)}

\* C19: an invocation of an outbound tool issues its request at most once,
\* and when the transport fails the tool has returned one failure report,
\* has stored no tracker and has started neither a loop nor a wait
C19_FailureReportedOnce ==
    \A t \in DOMAIN tool :
        /\ tool[t].requests <= 1
        /\ TransportFailed(tool[t]) =>
               /\ tool[t].pc = "returned"
               /\ tool[t].returned \in FailureReports
               /\ RegistryUntouched

\* a tool whose POST was answered 200 without success has returned
C19_Witness ==
    \E t \in DOMAIN tool :
        /\ TransportFailed(tool[t])
        /\ ~tool[t].answer.raises
        /\ tool[t].answer.status_code = 200

(***************************************************************************)
(* Claims about what a poll cycle sees of the store.                       *)
(***************************************************************************)
\* the records of the store that relate to the tracker of call_uuid
RelatedRecords(call_uuid) ==
    {i \in 1..Len(callback_events) :
        /\ IsDict(BodyOf(callback_events[i]))
        /\ EventMatches(active_calls, call_uuid, BodyOf(callback_events[i]))}

\* C20: a poll cycle of poll_call_status goes through every event that the
\* store held when the cycle read it and that relates to the tracker,
\* however many records the store holds
C20_CycleSeesEveryStoredEvent ==
    [][\A c \in DOMAIN poll :
          (poll[c].pc = "loop" /\ poll'[c].pc = "process") =>
              \A i \in RelatedRecords(c) :
                  \E j \in 1..Len(poll'[c].events) :
                      poll'[c].events[j] = callback_events[i]]_vars

\* a loop goes through a page while the store holds an event of its call
\* behind more than events_limit records
C20_Witness ==
    \E c \in DOMAIN poll :
        /\ poll[c].pc = "process"
        /\ \E i \in RelatedRecords(c) : i > events_limit

(***************************************************************************)
(* Claims about the cadence of the sweep.                                  *)
(***************************************************************************)
Retained(c) == c \in DOMAIN active_calls /\ Age(active_calls[c]) > retention

\* C21: while the server runs the sweep comes back on its cadence, so a
\* tracker whose age exceeds the retention window is eventually removed
C21_ExpiredTrackerEventuallyRemoved ==
    \A c \in CallIds : Retained(c) ~> (c \notin DOMAIN active_calls)

\* the server was started through main.py and holds a tracker older than
\* the retention window and one cleanup interval
C21_Witness ==
    /\ server.pc = "running"
    /\ server.entry = "main.py"
    /\ \E c \in CallIds :
          /\ c \in DOMAIN active_calls
          /\ Age(active_calls[c]) > retention + cleanup_interval

\* where the periodic_cleanup task exists, it does remove the tracker
C21_RemovedWhereTaskRuns ==
    \A c \in CallIds :
        (Retained(c) /\ server.cleanup = "sleeping") ~> (c \notin DOMAIN active_calls)

(***************************************************************************)
(* Claims about the speech view.                                           *)
(***************************************************************************)
\* the record holds a body that is a mapping with a speech mapping whose
\* results are a list of at least one result
HasRecognizedSpeech(record) ==
    /\ "body" \in DOMAIN record
    /\ record.body.pytype = "dict"
    /\ "speech" \in DOMAIN record.body
    /\ record.body.speech.pytype = "dict"
    /\ "results" \in DOMAIN record.body.speech
    /\ record.body.speech.results.pytype = "list"
    /\ Len(record.body.speech.results.items) >= 1

SpeechPlaces == {i \in 1..Len(callback_events) : HasRecognizedSpeech(callback_events[i])}

\* the k-th place of the store that holds recognized speech
SpeechPlace(k) ==
    CHOOSE i \in SpeechPlaces : Cardinality({j \in SpeechPlaces : j <= i}) = k

FirstOf(record) == record.body.speech.results.items[1]

\* C22: the speech view succeeds and lists, in insertion order, one entry
\* for each stored event with recognized speech and none for other
\* records; the entry carries the id and conversation_uuid of the event and
\* the text and confidence of its first result; count is the number of
\* entries
C22_SpeechViewExact ==
    resp.op = "get_speech_events" =>
        /\ resp.result.status_code = 200
        /\ resp.result.count = Cardinality(SpeechPlaces)
        /\ Len(resp.result.speech_events) = resp.result.count
        /\ \A k \in 1..Cardinality(SpeechPlaces) :
              LET entry == resp.result.speech_events[k]
                  record == callback_events[SpeechPlace(k)]
              IN  /\ entry.id = record.id
                  /\ entry.conversation_uuid = Get(record.body, "conversation_uuid")
                  /\ entry.text = GetOr(FirstOf(record), "text", "")
                  /\ entry.confidence = GetOr(FirstOf(record), "confidence", "0")

\* the view was read on a store that holds an event with two results
\* between records that hold no recognized speech
C22_Witness ==
    /\ resp.op = "get_speech_events"
    /\ Len(callback_events) = 3
    /\ SpeechPlaces = {2}
    /\ Len(callback_events[2].body.speech.results.items) = 2
    /\ "error" \in DOMAIN callback_events[3]

(***************************************************************************)
(* Claims about stale replies.                                             *)
(***************************************************************************)
ReturnedReply(s) == s \in DOMAIN sms /\ sms[s].pc = "returned" /\ sms[s].via = "match"

\* C23: a reply wait does not return an event that was in the store when
\* it started: one that an earlier wait for the same recipient has returned
\* is not returned again by a wait started after that return
C23_StaleReplyNotReturned ==
    \A earlier \in StaleIds, later \in StaleIds :
        (earlier < later /\ ReturnedReply(earlier) /\ ReturnedReply(later)) =>
            sms[earlier].already_seen \cap sms[later].already_seen = {}

\* two waits in turn have each returned a reply
C23_Witness ==
    \E earlier \in StaleIds, later \in StaleIds :
        earlier < later /\ ReturnedReply(earlier) /\ ReturnedReply(later)

(***************************************************************************)
(* Claims about the matching of events to a tracker.                       *)
(***************************************************************************)
\* the body of the record is a mapping, and its uuid is the primary id of
\* the tracker or its conversation_uuid is not empty and is the secondary id
Attributable(c, record) ==
    /\ "body" \in DOMAIN record
    /\ record.body.pytype = "dict"
    /\ \/ Get(record.body, "uuid") = c
       \/ /\ Get(record.body, "conversation_uuid") \notin {None, ""}
          /\ c \in DOMAIN active_calls
          /\ Get(record.body, "conversation_uuid") = active_calls[c].conversation_uuid

\* this step is the loop of c going through one event of its page
Examines(c) == poll[c].pc = "process" /\ poll'[c] # poll[c]

Examined(c) == poll[c].events[poll[c].idx]

\* the step changed the registry or emitted a notification
Updates(c) == active_calls' # active_calls \/ poll'[c].delivered # poll[c].delivered

\* the event carries a status this loop has not reported yet
FreshStatus(c, record) ==
    /\ "status" \in DOMAIN record.body
    /\ record.body.status \notin poll[c].status_sent
    /\ Get(record.body, "type") # "transfer"

C25_PrimaryIdAuthoritative ==
    [][\A c \in DOMAIN poll :
          (/\ Examines(c)
           /\ IsDict(BodyOf(Examined(c)))
           /\ Get(BodyOf(Examined(c)), "uuid") \notin {None, c}) => ~Updates(c)]_vars

\* the tracker has taken the status of an event that carries another uuid
C25_Witness ==
    \E c \in DOMAIN poll :
        /\ c \in DOMAIN active_calls
        /\ active_calls[c].status = "answered"
        /\ \A i \in 1..Len(callback_events) :
              Get(BodyOf(callback_events[i]), "status") = "answered" =>
                  Get(BodyOf(callback_events[i]), "uuid") # c

(***************************************************************************)
(* Claims about the termination of a Correlator loop.                      *)
(***************************************************************************)
\* the loop has reported a terminal status
SawTerminal(c) == poll[c].status_sent \cap TerminalStatuses # {}

\* the page the loop goes through has an end
PageLeft(c) == IF poll[c].pc = "process" THEN Len(poll[c].events) - poll[c].idx ELSE 0

\* C26: a Correlator loop makes at most max_attempts poll cycles, every
\* answer of the store counting as one, and makes none after it has seen a
\* terminal status; between two cycles it only goes down its page, so it
\* comes to its end
C26_LoopTerminates ==
    /\ [](\A c \in DOMAIN poll : poll[c].attempt <= max_attempts)
    /\ [][\A c \in DOMAIN poll :
             /\ poll'[c].attempt # poll[c].attempt =>
                    /\ poll[c].pc = "loop"
                    /\ poll'[c].attempt = poll[c].attempt + 1
                    /\ poll[c].attempt < max_attempts
                    /\ ~SawTerminal(c)
             /\ (poll[c].pc = "loop" /\ poll'[c] # poll[c]) =>
                    \/ poll'[c].attempt = poll[c].attempt + 1
                    \/ poll'[c].pc = "done"
             /\ (poll[c].pc = "process" /\ poll'[c] # poll[c]) =>
                    \/ PageLeft(c)' < PageLeft(c)
                    \/ poll'[c].pc \in {"loop", "done"}
             /\ poll[c].pc = "done" => poll'[c] = poll[c]]_vars

\* a loop has ended on a terminal status after a cycle that brought
\* nothing
C26_Witness ==
    \E c \in DOMAIN poll :
        /\ poll[c].pc = "done"
        /\ "busy" \in poll[c].status_sent
        /\ poll[c].attempt = 2
        /\ Len(poll[c].delivered) = 2

(***************************************************************************)
(* Claims about the capture of speech by a Correlator loop.                *)
(***************************************************************************)
SpeechMessages == {"Speech recognized: \"yes\" (confidence: 0.9)"}

SpeechNotices(c) == Count(poll[c].delivered, SpeechMessages)

\* C27: when the loop of a tracker that awaits a result goes through a
\* matching speech event, the tracker takes the text and the confidence of
\* its first result, and the loop emits the "Speech recognized"
\* notification once, however often the event comes back
C27_SpeechCapturedOnce ==
    /\ [](\A c \in DOMAIN poll : SpeechNotices(c) <= 1)
    /\ [][\A c \in DOMAIN poll :
             (Examines(c) /\ SpeechNotices(c)' > SpeechNotices(c)) =>
                 /\ Get(active_calls'[c], "speech_result")
                        = FirstOf(Examined(c)).text
                 /\ Get(active_calls'[c], "speech_confidence")
                        = FirstOf(Examined(c)).confidence]_vars

\* the loop of a tracker that awaits a result has emitted the notification
C27_Witness ==
    \E c \in DOMAIN poll \cap DOMAIN active_calls :
        /\ SpeechNotices(c) = 1
        /\ Get(active_calls[c], "is_speech_input") = TRUE
        /\ active_calls[c].speech_result = "yes"

(***************************************************************************)
(* C28: a step of the Correlator loop, of wait_for_speech_result or of     *)
(* check_call_status for primary id A leaves every tracker with another    *)
(* primary id as it was: the same fields with the same values.             *)
(***************************************************************************)
\* the tracker d is in the registry after the step as it was before
TrackerKept(d) == d \in DOMAIN active_calls' /\ active_calls'[d] = active_calls[d]

\* the step is one of the Correlator loop for c
LoopStepOf(c) == c \in DOMAIN poll /\ poll'[c] # poll[c]

\* the step is one of a wait_for_speech_result call for c
WaitStepOf(c) == \E w \in DOMAIN wait : wait[w].call_uuid = c /\ wait'[w] # wait[w]

\* the step is one of a check_call_status call for c
CheckStepOf(c) == check' # check /\ check'.call_uuid = c

C28_OtherTrackersUnchanged ==
    [][\A c \in CallIds :
          (LoopStepOf(c) \/ WaitStepOf(c) \/ CheckStepOf(c))
          => \A d \in DOMAIN active_calls \ {c} : TrackerKept(d)]_vars

\* both trackers are live, of one conversation, and each was written by its
\* own task: the loop of C1 recorded a status, the wait of C2 its result
C28_Witness ==
    /\ {"C1", "C2"} \subseteq DOMAIN active_calls
    /\ active_calls["C1"].conversation_uuid = active_calls["C2"].conversation_uuid
    /\ active_calls["C1"].status = "completed"
    /\ Get(active_calls["C2"], "speech_result") = "yes"
    /\ check.pc = "returned"
    /\ \E w \in DOMAIN wait : wait[w].pc = "returned"

(***************************************************************************)
(* C29: stored records are immutable and stay in place. Every step other   *)
(* than clear_events (an append, list_events, get_event, get_speech_events,*)
(* a step of a Correlator loop or of a wait) leaves each record of the     *)
(* store at its index with the same fields and values, hence in the same   *)
(* relative position; only clear_events removes records.                   *)
(***************************************************************************)
\* every record of the store is after the step where and what it was
RecordsKept ==
    /\ Len(callback_events') >= Len(callback_events)
    /\ \A i \in 1..Len(callback_events) : callback_events'[i] = callback_events[i]

C29_StoredRecordsKept == [][RecordsKept \/ ClearEvents]_vars

\* a full store that was read through every endpoint's Correlator-side
\* reader: the loop has walked a page and the wait has returned from one
C29_Witness ==
    /\ Len(callback_events) = MaxEvents
    /\ resp.op = "get_speech_events"
    /\ "C1" \in DOMAIN poll /\ poll["C1"].pc = "done"
    /\ 1 \in DOMAIN wait /\ wait[1].pc = "returned"

(***************************************************************************)
(* C30: every tracker gets a Correlator loop. Once a terminal status event *)
(* carrying the primary id of a live tracker (made by voice_call or by     *)
(* voice_call_with_input) is in the store, the tracker's status eventually *)
(* becomes that status, with no call of check_call_status.                 *)
(***************************************************************************)
\* a stored event carries the id of the live tracker c and the terminal status
TerminalReported(c, status) ==
    /\ c \in DOMAIN active_calls
    /\ status \in TerminalStatuses
    /\ \E i \in 1..Len(callback_events) :
          /\ IsDict(BodyOf(callback_events[i]))
          /\ Get(BodyOf(callback_events[i]), "uuid") = c
          /\ Get(BodyOf(callback_events[i]), "status") = status

C30_TerminalStatusReachesTracker ==
    \A c \in CallIds : \A status \in TerminalStatuses :
        TerminalReported(c, status)
        ~> (c \in DOMAIN active_calls /\ active_calls[c].status = status)

\* the loop of the voice_call tracker has recorded its terminal status and
\* ended, while the voice_call_with_input tracker, whose terminal event is
\* stored as well, has no loop and still reads "initiated"
C30_Witness ==
    /\ TerminalReported("C1", "completed") /\ TerminalReported("C2", "completed")
    /\ "C1" \in DOMAIN poll /\ poll["C1"].pc = "done"
    /\ active_calls["C1"].status = "completed"
    /\ "C2" \notin DOMAIN poll
    /\ active_calls["C2"].status = "initiated"

(***************************************************************************)
(* C31: under any interleaving of receive_event and clear_events handlers  *)
(* no accepted event is lost or counted twice. A handler that resumes and  *)
(* answers 200 appends exactly its record to the store as it then is; a    *)
(* clear_events reports exactly the number of records it removes and       *)
(* leaves the store empty, whatever requests are in flight; no other step  *)
(* removes or rewrites a record; and a list_events between them answers    *)
(* with a slice of the store as it is at that moment.                      *)
(***************************************************************************)
\* the step is the resumption of a suspended receive_event
Resumes == \E req \in inflight : req \notin inflight'

\* the step is a clear_events
Clears == resp' # resp /\ resp'.op = "clear_events"

\* the step is a list_events
Lists == resp' # resp /\ resp'.op = "list_events"

C31_NoEventLostOrCountedTwice ==
    [][/\ (Resumes /\ resp'.status_code = 200) =>
            /\ Len(callback_events') = Len(callback_events) + 1
            /\ SubSeq(callback_events', 1, Len(callback_events)) = callback_events
            /\ IsEventRecord(Last(callback_events'))
            /\ Last(callback_events').body = ReceivedBody(resp'.request)
       /\ Clears =>
            /\ resp'.cleared = Len(callback_events)
            /\ callback_events' = <<>>
       /\ Lists =>
            /\ resp'.result = ListResult(callback_events, resp'.limit, resp'.skip)
            /\ callback_events' = callback_events
       /\ ~Clears =>
            /\ Len(callback_events') >= Len(callback_events)
            /\ SubSeq(callback_events', 1, Len(callback_events)) = callback_events]_vars

\* a clear_events has removed records while a receive_event was suspended,
\* and a record is in the store again
C31_Witness ==
    /\ resp.op = "receive_event" /\ resp.status_code = 200
    /\ Len(callback_events) = 1
    /\ callback_events[1].id[2] = 1
    /\ wall > 1
    /\ inflight # {}

(***************************************************************************)
(* C32: event ids are unique. No two records of the store share an id, and *)
(* no append assigns an id that was assigned before, in particular not one *)
(* of a record that a clear_events has removed, for any sequence of        *)
(* appends (failed ones included) and clears.                              *)
(***************************************************************************)
C32_IdsUnique ==
    /\ [](\A i, j \in 1..Len(callback_events) :
             i # j => callback_events[i].id # callback_events[j].id)
    /\ [][Len(callback_events') > Len(callback_events) =>
             callback_events'[Len(callback_events')].id \notin issued]_vars

\* the store was cleared and holds a first record again, whose clock reading
\* is that of an earlier request
C32_Witness ==
    /\ Len(callback_events) = 1
    /\ resp.op = "receive_event"
    /\ callback_events[1].id[3] = wall
    /\ wall >= 1
    /\ Cardinality(issued) >= 2

(***************************************************************************)
(* C33: every record of the store is a complete event. It has an id, a     *)
(* timestamp, an endpoint, headers, query_params and a body, and the body  *)
(* is a mapping: the payload, or the raw text with a parse_error marker.   *)
(* No record of another shape is stored, also when the answer is 500.      *)
(***************************************************************************)
CompleteEvent(e) == IsEventRecord(e) /\ IsDict(e.body)

C33_EveryRecordComplete ==
    \A i \in 1..Len(callback_events) : CompleteEvent(callback_events[i])

\* a POST /event was answered 500 and has left a record in the store
C33_Witness ==
    /\ resp.op = "receive_event"
    /\ resp.status_code = 500
    /\ callback_events # <<>>
    /\ "error" \in DOMAIN Last(callback_events)
    /\ Last(callback_events).error.error = resp.status

(***************************************************************************)
(* C34: a poll cycle that sees several status events of its tracker that   *)
(* were not reported yet appends them to the history in the order they     *)
(* were received and leaves the tracker with the status of the one         *)
(* received last; a loop that ended on a terminal status leaves the        *)
(* tracker with a terminal status. The events arrive in the order of the   *)
(* call's stages, so the order of receipt is the order of StatusRank, and  *)
(* the tracker's stage is at least that of every status the loop reported  *)
(* (check_call_status may have moved it further).                          *)
(***************************************************************************)
\* the stage of the status a history entry stands for
EntryRank(message) ==
    Max({StatusRank(status) : status \in {v \in StatusValues : message \in MessagesOf(v)}})

\* the loop of c is between two cycles or has ended, without an exception
BetweenCycles(c) == poll[c].pc \in {"loop", "done"} /\ poll[c].raised = None

C34_CycleKeepsReceiptOrder ==
    \A c \in DOMAIN poll \cap DOMAIN active_calls :
        BetweenCycles(c) =>
            /\ \A i, j \in 1..Len(History(c)) :
                   i < j => EntryRank(History(c)[i]) <= EntryRank(History(c)[j])
            /\ poll[c].status_sent # {} =>
                   StatusRank(active_calls[c].status) >=
                       Max({StatusRank(status) : status \in poll[c].status_sent})
            /\ poll[c].call_completed => active_calls[c].status \in TerminalStatuses

\* one cycle has walked a page holding ringing, answered and completed, in
\* this order of receipt, and the loop has ended on the terminal status
C34_Witness ==
    /\ "C1" \in DOMAIN poll \cap DOMAIN active_calls
    /\ poll["C1"].pc = "done"
    /\ poll["C1"].attempt = 1
    /\ poll["C1"].call_completed
    /\ poll["C1"].status_sent = {"ringing", "answered", "completed"}
    /\ Len(History("C1")) = 3

(***************************************************************************)
(* C35: a terminal status event that matches the tracker and is on the     *)
(* page of a poll cycle ends the loop and is recorded in the tracker's     *)
(* history, whatever other matching events the page holds, a transfer      *)
(* event with the same status value included; and a loop never ends on a   *)
(* transfer event alone: a loop that has ended has seen a terminal status  *)
(* event or has used up its attempts or its GET has failed.                *)
(***************************************************************************)
\* the event is a status event of call_uuid with a terminal status
IsTerminalEvent(event, call_uuid) ==
    /\ IsDict(BodyOf(event))
    /\ Get(event.body, "uuid") = call_uuid
    /\ Get(event.body, "type") # "transfer"
    /\ Get(event.body, "status") \in TerminalStatuses

\* the terminal status events on the page the loop of c has fetched last
TerminalOnPage(c) ==
    {i \in 1..Len(poll[c].events) : IsTerminalEvent(poll[c].events[i], c)}

\* the loop of c is past the page it fetched last
PageDone(c) == poll[c].pc \in {"loop", "done"} /\ poll[c].attempt >= 1

C35_TerminalEventEndsLoop ==
    \A c \in DOMAIN poll \cap DOMAIN active_calls :
        /\ (PageDone(c) /\ TerminalOnPage(c) # {}) =>
               /\ poll[c].call_completed
               /\ \A i \in TerminalOnPage(c) :
                      StatusMessage(poll[c].events[i].body.status, poll[c].events[i].body)
                          \in {History(c)[k] : k \in 1..Len(History(c))}
        /\ poll[c].pc = "done" =>
               \/ poll[c].call_completed
               \/ poll[c].attempt >= max_attempts
               \/ poll[c].raised = "ConnectError"

\* the page held the terminal event and, received after it, a transfer
\* event with the same status value; the loop is over
C35_Witness ==
    /\ "C1" \in DOMAIN poll \cap DOMAIN active_calls
    /\ poll["C1"].pc = "done"
    /\ TerminalOnPage("C1") # {}
    /\ \E i \in 1..Len(poll["C1"].events) :
          /\ poll["C1"].events[i].body = TransferBody("C1", "CV1", "completed")
          /\ i < Min(TerminalOnPage("C1"))

(***************************************************************************)
(* C36: only the creation of a tracker adds a key to the registry. A key   *)
(* that appears in a step is that of a tracker voice_call or               *)
(* voice_call_with_input stores in that step, together with its loop or    *)
(* its wait; no step of a loop, of a wait or of check_call_status brings   *)
(* an evicted tracker back.                                                *)
(***************************************************************************)
\* the step stores a new tracker for c and starts its loop or its wait
Creates(c) ==
    \/ /\ c \in DOMAIN poll' \ DOMAIN poll
       /\ active_calls'[c] =
              NewTracker(active_calls'[c].to, active_calls'[c].conversation_uuid, loop_time)
    \/ /\ \E w \in DOMAIN wait' \ DOMAIN wait : wait'[w].call_uuid = c
       /\ active_calls'[c] =
              NewSpeechTracker(active_calls'[c].to, active_calls'[c].conversation_uuid,
                               loop_time)

C36_OnlyCreationAddsKeys ==
    [][\A c \in DOMAIN active_calls' \ DOMAIN active_calls : Creates(c)]_vars

\* both trackers were evicted; afterwards the wait for C2 has returned a
\* result, the loop of C1 has reported the terminal status, and
\* check_call_status has ended on the missing tracker
C36_Witness ==
    /\ reaper.ran /\ active_calls = <<>>
    /\ 1 \in DOMAIN wait /\ wait[1].pc = "returned" /\ wait[1].result = "yes"
    /\ "C1" \in DOMAIN poll /\ poll["C1"].pc = "done" /\ poll["C1"].call_completed
    /\ check.pc \in {"returned", "raised"}

(***************************************************************************)
(* C37: check_call_status never raises. For an id that is not in the       *)
(* registry it returns the not-found message and changes nothing; for a    *)
(* tracker that is there when it is called it returns a summary, also when *)
(* the sweep removes the tracker while the call awaits its GET.            *)
(***************************************************************************)
C37_CheckNeverRaises ==
    /\ [](check.pc # "raised")
    /\ [][(check' # check /\ check.pc # "await") =>
             IF check'.call_uuid \in DOMAIN active_calls
             THEN check'.pc = "await"
             ELSE /\ check'.pc = "returned"
                  /\ check'.answer = "No call found"
                  /\ active_calls' = active_calls]_vars
    /\ [][(check.pc = "await" /\ check' # check) =>
             /\ check'.pc = "returned"
             /\ check'.answer # "No call found"]_vars

\* the sweep has removed the tracker of a check_call_status that was
\* awaiting its GET, and the call has ended
C37_Witness ==
    /\ reaper.ran
    /\ check.pc \notin {"idle", "await"}
    /\ check.answer # "No call found"
    /\ check.call_uuid \notin DOMAIN active_calls

(***************************************************************************)
(* C38: wait_for_speech_result returns a recognized text only from an      *)
(* event whose conversation_uuid is present and is the conversation of a   *)
(* live tracker with the given primary id. With no such tracker in the     *)
(* registry it returns no result, whatever speech events the store holds,  *)
(* those without a conversation_uuid included.                             *)
(***************************************************************************)
\* a stored speech event of the conversation of the live tracker call_uuid
\* whose first result has this text
HeardFor(call_uuid, text) ==
    /\ call_uuid \in DOMAIN active_calls
    /\ \E i \in 1..Len(callback_events) :
          LET body == BodyOf(callback_events[i])
          IN  /\ HasRecognizedSpeech(callback_events[i])
              /\ "conversation_uuid" \in DOMAIN body
              /\ Truthy(body.conversation_uuid)
              /\ body.conversation_uuid = Get(active_calls[call_uuid], "conversation_uuid")
              /\ Get(FirstResult(body.speech), "text") = text

C38_ResultOnlyFromOwnConversation ==
    [][\A w \in DOMAIN wait \cap DOMAIN wait' :
          (wait[w].pc # "returned" /\ wait'[w].pc = "returned" /\ wait'[w].result # None)
          => HeardFor(wait[w].call_uuid, wait'[w].result)]_vars

\* a wait whose tracker was evicted has returned the text of a speech event
\* that carries no conversation_uuid
C38_Witness ==
    /\ reaper.ran
    /\ 1 \in DOMAIN wait
    /\ wait[1].pc = "returned" /\ wait[1].via = "dedicated" /\ wait[1].result = "yes"
    /\ wait[1].call_uuid \notin DOMAIN active_calls
    /\ \A i \in 1..Len(callback_events) :
          "conversation_uuid" \notin DOMAIN BodyOf(callback_events[i])

(***************************************************************************)
(* C39: a reply for the awaited destination that is appended while the     *)
(* wait is in progress is returned by the wait: a pass of the wait whose   *)
(* GET is answered with a page that holds such a reply returns the text of *)
(* a reply, whatever the shape of the other records of the page (JSON      *)
(* arrays, parse-error records, error records) and wherever they stand     *)
(* relative to the reply.                                                  *)
(***************************************************************************)
\* the stored replies for this destination
Replies(recipient_msisdn) ==
    {i \in 1..Len(callback_events) :
        /\ IsDict(BodyOf(callback_events[i]))
        /\ Get(BodyOf(callback_events[i]), "msisdn") = recipient_msisdn}

C39_ReplyReturnedWhateverElseIsStored ==
    [][\A s \in DOMAIN sms \cap DOMAIN sms' :
          (/\ sms[s].pc = "get"
           /\ sms'[s] # sms[s]
           /\ sms'[s].answered = "200"
           /\ Replies(sms[s].recipient_msisdn) # {}) =>
              /\ sms'[s].pc = "returned"
              /\ \E i \in Replies(sms[s].recipient_msisdn) :
                     sms'[s].result = Get(callback_events[i].body, "text")]_vars

\* the reply arrived during the wait, a JSON array after it, and the wait
\* has run into its deadline
C39_Witness ==
    /\ 1 \in DOMAIN sms
    /\ sms[1].pc = "returned" /\ sms[1].via = "timeout"
    /\ \E i \in Replies(Recipient) : \E j \in (i + 1)..Len(callback_events) :
          BodyOf(callback_events[j]).pytype = "list"

====
